---- MODULE Spec2Model ----
(***************************************************************************)
(* Model of the safety and pipeline-orchestration core of instaAutomation: *)
(* the action ledger and quota guard (src/src/safety_manager.py), the      *)
(* uploader (src/src/upload_to_instagram.py), the downloader               *)
(* (src/src/download_videos.py) and the batch driver (src/main.py).        *)
(*                                                                         *)
(* Time is counted in whole seconds; local time is taken to be UTC, so     *)
(* local midnight is a multiple of Day.  The `details` map of an action    *)
(* record is opaque to every decision of the code and is left out.         *)
(***************************************************************************)
EXTENDS Integers, Sequences, FiniteSets, TLC

VARIABLES
    now,            \* time.time(), in seconds
    settings,       \* src.config.settings, fixed during a behaviour
    actions,        \* SafetyManager.actions, the in-memory ledger
    check,          \* the last can_perform_action call: its argument and result
    authenticated,  \* Uploader._authenticated
    retry_count,    \* Uploader._retry_count
    heap,           \* the VideoMetadata objects created so far; an object is its index
    videos,         \* Automation.videos
    pc,             \* the statement the single thread of control is at
    entry,          \* the operation the caller invoked
    urls,           \* the argument of Automation.run
    dl_urls,        \* download_multiple_videos: urls
    results,        \* download_multiple_videos: results
    to_upload,      \* Automation.upload_videos: the videos argument
    batch,          \* upload_multiple_videos: videos (updated in place)
    todo,           \* upload_multiple_videos: videos_to_upload
    idx,            \* upload_multiple_videos: idx
    cur,            \* upload_video_metadata: metadata
    depth,          \* upload_video: number of nested re-entries
    n_left,         \* reply/like loop: comments not yet visited
    n_done,         \* reply/like loop: replied_count / liked_count
    ret,            \* the value returned by the invoked operation
    script,         \* outcomes the publish client is set up to give first
    file,           \* the content of SafetyManager.state_file on disk
    web,            \* the background runs started through the web UI
    calc,           \* the last call of a delay or cool-down function and its result
    legacy,         \* the legacy VideoDownloader and its download in progress
    h,              \* history of the current behaviour (not program state)
    hs              \* history of the state file (not program state)

smVars == <<now, settings, actions, check>>
upVars == <<authenticated, retry_count>>
dlVars == <<dl_urls, results>>
umvVars == <<to_upload, batch, todo, idx>>
loopVars == <<n_left, n_done>>
storeVars == <<file, hs>>
vars == <<now, settings, actions, check, authenticated, retry_count, heap, videos,
          pc, entry, urls, dl_urls, results, to_upload, batch, todo, idx, cur,
          depth, n_left, n_done, ret, script, file, web, calc, legacy, legacy, h, hs>>

----------------------------------------------------------------------------
(* Bounds of the model *)

MaxCap == 2        \* largest configured cap
MaxNow == 3600     \* the clock runs this far past the start of a behaviour
MaxLedger == 3     \* longest ledger built by direct record_action calls
MaxUrls == 2       \* number of URLs handed to a run
MaxEngageUrls == 1 \* number of valid URLs handed to a run with engagement
MaxItems == 1      \* number of items created when operations are called directly
MaxComments == 2   \* number of comments the engagement client returns for a post
MaxDepth == 4      \* nested calls the interpreter allows before RecursionError
MaxRuns == 2       \* background runs started through the web UI
MaxSaved == 2      \* longest ledger of a process that saves step by step
MaxDays == 1       \* days the clock of such a process runs
MaxCooldowns == 2  \* safety delays a behaviour of cool-down calls sleeps through
MaxAttempt == 7    \* largest retry count handed to the backoff
MaxSpread == 2     \* samples drawn above the minimum of a random delay
MaxRetries == 3    \* largest max_retries the legacy downloader is built with
MaxLegacyUrls == 2 \* number of URLs handed to the legacy downloader

(* Program constants *)

Hour == 3600
Day == 86400

\* Durations of a sleep or of a call to a collaborator, on the model's time
\* grid; 0 stands for a duration too short to move a record across a window.
Elapse == {0, 1800, 3600}
\* wall-clock times at which a behaviour starts: 01:00 and 23:00
StartTimes == {3600, 82800}
\* the start of the behaviour that has reached time t, and its last instant
StartOf(t) == CHOOSE s \in StartTimes : s <= t /\ \A r \in StartTimes : r <= t => r <= s
Horizon(t) == StartOf(t) + MaxNow
\* a blocking step may take d seconds
MayTake(d) == d \in Elapse /\ (d = 0 \/ now + d <= Horizon(now))

ACTION_POST == "post"
ACTION_COMMENT == "comment"
ACTION_LIKE == "like"
ACTION_REPLY == "reply"
RATE_LIMIT == "rate_limit"

ActionTypes == {ACTION_POST, ACTION_COMMENT, ACTION_LIKE, ACTION_REPLY, RATE_LIMIT}

\* Optional[int]: <<>> is None, <<n>> is the integer n
None == <<>>
Some(n) == <<n>>
\* truthiness taken as "is not None": 0 counts as a cap
Truthy_zero_is_a_cap(o) == o # None

\* Python truthiness of an Optional[int]
Truthy(o) == o # None /\ o[1] # 0

----------------------------------------------------------------------------
(* SafetyManager *)

ActionRecord(t, action_type) == [timestamp |-> t, action_type |-> action_type]

\* _clean_old_records keeping a record that is exactly 24 hours old
clean_old_records_inclusive(acts, t) ==
    LET cutoff_time == t - (24 * 60 * 60)
    IN  SelectSeq(acts, LAMBDA a : a.timestamp >= cutoff_time)

clean_old_records(acts, t) ==
    LET cutoff_time == t - (24 * 60 * 60)
    IN  SelectSeq(acts, LAMBDA a : a.timestamp > cutoff_time)

\* record_action that prunes the ledger and appends nothing
record_action_dropping(acts, t, action_type) == clean_old_records(acts, t)

record_action(acts, t, action_type) ==
    clean_old_records(Append(acts, ActionRecord(t, action_type)), t)

\* the count that takes comments and replies as one type
get_action_count_comments_with_replies(acts, t, action_type, hours) ==
    LET cutoff_time == t - (hours * 60 * 60)
        same == IF action_type \in {ACTION_COMMENT, ACTION_REPLY}
                THEN {ACTION_COMMENT, ACTION_REPLY} ELSE {action_type}
    IN  Cardinality({i \in DOMAIN acts :
            acts[i].action_type \in same /\ acts[i].timestamp > cutoff_time})

\* the count that still includes a record exactly at the cutoff
get_action_count_inclusive(acts, t, action_type, hours) ==
    LET cutoff_time == t - (hours * 60 * 60)
    IN  Cardinality({i \in DOMAIN acts :
            acts[i].action_type = action_type /\ acts[i].timestamp >= cutoff_time})

get_action_count(acts, t, action_type, hours) ==
    LET cutoff_time == t - (hours * 60 * 60)
    IN  Cardinality({i \in DOMAIN acts :
            acts[i].action_type = action_type /\ acts[i].timestamp > cutoff_time})

\* the daily window taken as the last 24 hours
today_start_rolling(t) == t - Day

today_start(t) == (t \div Day) * Day

get_action_count_today(acts, t, action_type) ==
    LET cutoff_time == today_start(t)
    IN  Cardinality({i \in DOMAIN acts :
            acts[i].action_type = action_type /\ acts[i].timestamp > cutoff_time})

\* the limits table without the daily cap of posts
limits_hourly_only(cfg) ==
    [post    |-> [per_hour |-> Some(cfg.max_posts_per_hour), per_day |-> None],
     comment |-> [per_hour |-> Some(cfg.max_comments_per_hour), per_day |-> None],
     like    |-> [per_hour |-> Some(cfg.max_likes_per_hour), per_day |-> None],
     reply   |-> [per_hour |-> Some(cfg.max_comments_per_hour), per_day |-> None]]

\* the limits table with the comment cap applied to rate-limit events too
limits_with_rate_limit(cfg) ==
    [post    |-> [per_hour |-> Some(cfg.max_posts_per_hour),
                  per_day  |-> Some(cfg.max_posts_per_day)],
     comment |-> [per_hour |-> Some(cfg.max_comments_per_hour), per_day |-> None],
     like    |-> [per_hour |-> Some(cfg.max_likes_per_hour), per_day |-> None],
     reply   |-> [per_hour |-> Some(cfg.max_comments_per_hour), per_day |-> None],
     rate_limit |-> [per_hour |-> Some(cfg.max_comments_per_hour), per_day |-> None]]

limits(cfg) ==
    [post    |-> [per_hour |-> Some(cfg.max_posts_per_hour),
                  per_day  |-> Some(cfg.max_posts_per_day)],
     comment |-> [per_hour |-> Some(cfg.max_comments_per_hour), per_day |-> None],
     like    |-> [per_hour |-> Some(cfg.max_likes_per_hour), per_day |-> None],
     reply   |-> [per_hour |-> Some(cfg.max_comments_per_hour), per_day |-> None]]

Allowed == [ok |-> TRUE, window |-> "None", current |-> 0, limit |-> 0]
Denied(window, current, limit) ==
    [ok |-> FALSE, window |-> window, current |-> current, limit |-> limit]

\* can_perform_action with the caps compared by > instead of >=
can_perform_action_off_by_one(acts, t, cfg, action_type) ==
    IF action_type \notin DOMAIN limits(cfg) THEN Allowed
    ELSE LET limit == limits(cfg)[action_type]
             hourly_count == get_action_count(acts, t, action_type, 1)
         IN  IF Truthy(limit.per_hour) /\ hourly_count > limit.per_hour[1]
             THEN Denied("Hourly", hourly_count, limit.per_hour[1])
             ELSE IF Truthy(limit.per_day)
                     /\ get_action_count_today(acts, t, action_type) > limit.per_day[1]
                  THEN Denied("Daily", get_action_count_today(acts, t, action_type),
                              limit.per_day[1])
                  ELSE Allowed

can_perform_action(acts, t, cfg, action_type) ==
    IF action_type \notin DOMAIN limits(cfg) THEN Allowed
    ELSE LET limit == limits(cfg)[action_type]
             hourly_count == get_action_count(acts, t, action_type, 1)
         IN  IF Truthy(limit.per_hour) /\ hourly_count >= limit.per_hour[1]
             THEN Denied("Hourly", hourly_count, limit.per_hour[1])
             ELSE IF Truthy(limit.per_day)
                     /\ get_action_count_today(acts, t, action_type) >= limit.per_day[1]
                  THEN Denied("Daily", get_action_count_today(acts, t, action_type),
                              limit.per_day[1])
                  ELSE Allowed

----------------------------------------------------------------------------
(* The state file of the ledger *)

\* The file is "absent", "unreadable" or "text".  A text is what has reached
\* the file of a JSON document {"actions": [...], "last_updated": t}: the
\* objects of the action list written so far, and whether the rest of the
\* document up to its closing brace is there.  A text that is not closed is
\* not a JSON document.
NoFile == [state |-> "absent", written |-> <<>>, closed |-> FALSE, last_updated |-> 0]

\* the keys of the object asdict makes of an ActionRecord
RecordKeys == {"timestamp", "action_type", "details"}

\* dataclasses.asdict(action)
asdict(a) == [keys |-> RecordKeys, timestamp |-> a.timestamp, action_type |-> a.action_type]

\* save_history saving the ledger as it was before the last append
save_data_stale(acts, t) ==
    [actions |-> [i \in 1..(Len(acts) - 1) |-> asdict(acts[i])], last_updated |-> t]

\* the dictionary save_history builds before it opens the file
save_data(acts, t) ==
    [actions |-> [i \in DOMAIN acts |-> asdict(acts[i])], last_updated |-> t]

\* the file after open(state_file, 'w')
opened_for_write == [state |-> "text", written |-> <<>>, closed |-> FALSE, last_updated |-> 0]

\* the file when json.dump has got as far as the first k objects of the list
written_up_to(data, k) ==
    [state |-> "text", written |-> SubSeq(data.actions, 1, k), closed |-> FALSE,
     last_updated |-> 0]

\* the file when json.dump has written the whole document
written_whole(data) ==
    [state |-> "text", written |-> data.actions, closed |-> TRUE,
     last_updated |-> data.last_updated]

\* save_history when nothing fails
save_history(acts, t) == written_whole(save_data(acts, t))

\* json.load returning what it could read of a text that ends early
json_load_lenient(f) ==
    IF f.state = "text"
    THEN [ok |-> TRUE, actions |-> f.written]
    ELSE [ok |-> FALSE, actions |-> <<>>]

\* json.load: the document, or an exception
json_load(f) ==
    IF f.state = "text" /\ f.closed
    THEN [ok |-> TRUE, actions |-> f.written]
    ELSE [ok |-> FALSE, actions |-> <<>>]

\* an ActionRecord without its details field: the details key is unexpected
accepts_without_details(record) ==
    /\ {"timestamp", "action_type"} \subseteq record.keys
    /\ record.keys \subseteq {"timestamp", "action_type"}

\* ActionRecord(**record) raises TypeError on a missing or an unexpected key
accepts(record) ==
    /\ {"timestamp", "action_type"} \subseteq record.keys
    /\ record.keys \subseteq RecordKeys

\* ActionRecord(**record)
from_dict(record) == ActionRecord(record.timestamp, record.action_type)

\* load_history passing over the records ActionRecord rejects
load_history_skipping(f, t) ==
    IF f.state = "absent" THEN <<>>
    ELSE LET doc == json_load(f)
             good == SelectSeq(doc.actions, accepts)
         IN  IF ~doc.ok THEN <<>>
             ELSE clean_old_records([i \in DOMAIN good |-> from_dict(good[i])], t)

\* load_history: the ledger a new SafetyManager starts with
load_history(f, t) ==
    IF f.state = "absent" THEN <<>>
    ELSE LET doc == json_load(f)
         IN  IF ~doc.ok \/ \E i \in DOMAIN doc.actions : ~accepts(doc.actions[i])
             THEN <<>>
             ELSE clean_old_records(
                    [i \in DOMAIN doc.actions |-> from_dict(doc.actions[i])], t)

\* what is known of the file: the ledger of the last document written in
\* full, how the last save_history of the running process ended, and when
\* its last record_action was called
NoStoreHistory == [snapshot |-> <<>>, last_save |-> "none", at |-> 0]

\* record_action's save_history going through (recorded), or no record made
Persist(recorded, t) ==
    /\ file' = IF recorded THEN save_history(actions', t) ELSE file
    /\ hs' = IF recorded THEN [snapshot |-> actions', last_save |-> "ok", at |-> t]
             ELSE hs

----------------------------------------------------------------------------
(* Configuration *)

Caps == 1..MaxCap

Settings ==
    [max_posts_per_hour : Caps, max_posts_per_day : Caps,
     max_comments_per_hour : Caps, max_likes_per_hour : Caps,
     auto_comment_enabled : BOOLEAN, auto_reply_enabled : BOOLEAN,
     auto_like_comments : BOOLEAN,
     enable_exponential_backoff : {TRUE}, retry_base_delay : {60},
     max_retry_attempts : {3},
     auto_reply_max_per_post : {1}, auto_like_max_per_post : {10},
     auto_comment_delay : {60}, auto_reply_delay : {300},
     auto_like_comment_delay : {180},
     post_delay_random_min : {600}, post_delay_random_max : {1800}]

\* the configurations of the ledger-only specification: likes and comments
\* share one cap value and no engagement is enabled
GuardSettings ==
    {cfg \in Settings :
        /\ cfg.max_likes_per_hour = cfg.max_comments_per_hour
        /\ ~cfg.auto_comment_enabled /\ ~cfg.auto_reply_enabled
        /\ ~cfg.auto_like_comments}

\* the configurations of a run without engagement: the post caps vary
RunSettings ==
    {cfg \in Settings :
        /\ cfg.max_likes_per_hour = MaxCap /\ cfg.max_comments_per_hour = MaxCap
        /\ ~cfg.auto_comment_enabled /\ ~cfg.auto_reply_enabled
        /\ ~cfg.auto_like_comments}

\* the configurations of a run with engagement: the engagement caps and the
\* enabled sub-steps vary
EngageSettings ==
    {cfg \in Settings :
        /\ cfg.max_posts_per_hour = MaxCap /\ cfg.max_posts_per_day = MaxCap
        /\ cfg.max_likes_per_hour = cfg.max_comments_per_hour
        /\ (cfg.auto_comment_enabled \/ cfg.auto_reply_enabled
                \/ cfg.auto_like_comments)}

----------------------------------------------------------------------------
(* VideoMetadata and VideoStatus *)

PENDING == "pending"
DOWNLOADING == "downloading"
DOWNLOADED == "downloaded"
DOWNLOAD_FAILED == "download_failed"
UPLOADING == "uploading"
UPLOADED == "uploaded"
UPLOAD_FAILED == "upload_failed"

NoValue == "None"

VideoMetadata(url) ==
    [url |-> url, status |-> PENDING, file_path |-> NoValue,
     post_id |-> NoValue, error_message |-> NoValue]

\* the URLs of the model; validate__url accepts the first two
Urls == {"https://host/p/A/", "https://host/p/B/", "not-a-url"}
validate_url(url) == url \in {"https://host/p/A/", "https://host/p/B/"}

\* the filter left out: every object of the list is kept
downloaded_only_unfiltered(list, hp) == list

\* the sub-sequence of the objects of a list that are in DOWNLOADED status
downloaded_only(list, hp) == SelectSeq(list, LAMBDA v : hp[v].status = DOWNLOADED)

SetStatus(hp, v, status, msg) ==
    [hp EXCEPT ![v] = [@ EXCEPT !.status = status, !.error_message = msg]]

----------------------------------------------------------------------------
(* History *)

NoCheck == [action_type |-> "none", result |-> Allowed]

\* the background runs of the web UI: none started
Runs == 1..MaxRuns
NoRuns == [r \in Runs |-> [pc |-> "idle", left |-> 0]]

\* no delay or cool-down function has been called
NoCall == [fn |-> "none", args |-> <<>>, result |-> 0, ok |-> TRUE, wait |-> 0]

\* the legacy downloader is not in use
NoLegacy ==
    [max_retries |-> 0, retry_delay |-> 0, index |-> 0, attempt |-> 0,
     downloaded_videos |-> <<>>, outcomes |-> <<>>, sleeps |-> {},
     \* history: the attempts and sleeps of the URL handled last, and the
     \* number of sleeps of retry_delay so far
     log |-> [outcomes |-> <<>>, sleeps |-> {}], slept |-> 0]

NoHistory ==
    [calls |-> 0,            \* publish attempts of the current upload_video_metadata
     retry_after |-> "none", \* the failure the pending publish call is a retry of
     published |-> {},       \* items whose publish call has succeeded
     denied |-> {},          \* items whose upload the post quota denied
     dl_failed |-> {},       \* items whose download failed
     touched |-> {},         \* items the upload logic has handled
     scripted |-> <<>>,      \* the outcomes the publish client was set up with
     slept |-> <<>>]         \* the last engagement wait of the current upload:
                             \* <<sub-step, seconds handed to time.sleep>>

----------------------------------------------------------------------------
(* VideoDownloader *)

\* download_video up to the first call to a collaborator
DownloadBegin ==
    /\ pc = "dl_loop"
    /\ Len(results) < Len(dl_urls)
    /\ LET url == dl_urls[Len(results) + 1]
           v == Len(heap) + 1
       IN  IF validate_url(url)
           THEN /\ heap' = Append(heap, [VideoMetadata(url) EXCEPT !.status = DOWNLOADING])
                /\ pc' = "dl_fetch"
                /\ UNCHANGED <<results, h>>
           ELSE /\ heap' = Append(heap, [VideoMetadata(url) EXCEPT
                                !.status = DOWNLOAD_FAILED,
                                !.error_message = "Invalid URL"])
                /\ results' = Append(results, v)
                /\ h' = [h EXCEPT !.dl_failed = @ \cup {v}]
                /\ pc' = "dl_loop"
    /\ UNCHANGED <<storeVars, web, calc, legacy, smVars, upVars, videos, entry, urls, dl_urls, umvVars, cur,
                   depth, loopVars, ret, script>>

\* download_video marking every item DOWNLOADED
download_status_always_ok(outcome) == DOWNLOADED

\* the status download_video leaves on the item
download_status(outcome) == IF outcome = "ok" THEN DOWNLOADED ELSE DOWNLOAD_FAILED

\* the rest of download_video: the post is loaded and the file fetched
DownloadFetch(outcome) ==
    /\ pc = "dl_fetch"
    /\ LET v == Len(heap)
       IN  /\ heap' = [heap EXCEPT ![v] = [@ EXCEPT
                        !.status = download_status(outcome),
                        !.file_path = IF outcome = "ok" THEN "path" ELSE NoValue,
                        !.error_message = IF outcome = "ok" THEN NoValue
                                          ELSE "download error"]]
           /\ results' = Append(results, v)
           /\ h' = IF outcome = "ok" THEN h ELSE [h EXCEPT !.dl_failed = @ \cup {v}]
    /\ pc' = "dl_loop"
    /\ UNCHANGED <<storeVars, web, calc, legacy, smVars, upVars, videos, entry, urls, dl_urls,
                   umvVars, cur, depth, loopVars, ret, script>>

\* download_multiple_videos returns; Automation.download_videos and run go on
DownloadsDone ==
    /\ pc = "dl_loop"
    /\ Len(results) = Len(dl_urls)
    /\ IF entry = "run"
       THEN /\ videos' = results
            /\ to_upload' = results
            /\ IF results = <<>>
               THEN pc' = "done" /\ ret' = <<>>
               ELSE pc' = "upload_videos" /\ ret' = ret
       ELSE /\ pc' = "returned"
            /\ ret' = results
            /\ UNCHANGED <<videos, to_upload>>
    /\ UNCHANGED <<storeVars, web, calc, legacy, smVars, upVars, heap, entry, urls, dlVars, batch, todo, idx, cur,
                   depth, loopVars, script, h>>

----------------------------------------------------------------------------
(* Automation *)

\* Automation.run and Automation.download_videos up to the download loop
RunBegin ==
    /\ pc = "run"
    /\ LET valid_urls == SelectSeq(urls, validate_url)
       IN  IF valid_urls = <<>>
           THEN pc' = "done" /\ ret' = <<>> /\ UNCHANGED dlVars
           ELSE pc' = "dl_loop" /\ dl_urls' = valid_urls /\ results' = <<>>
                /\ ret' = ret
    /\ UNCHANGED <<storeVars, web, calc, legacy, smVars, upVars, heap, videos, entry, urls, umvVars, cur, depth,
                   loopVars, script, h>>

\* where control goes when the operation named op returns
ReturnFrom(op, inner) == IF entry = op THEN "returned" ELSE inner

\* Automation.upload_videos up to the call of upload_multiple_videos
UploadVideosBegin(login_ok) ==
    /\ pc = "upload_videos"
    /\ LET videos_to_upload == IF to_upload # <<>> THEN to_upload ELSE videos
           downloaded_videos == downloaded_only(videos_to_upload, heap)
           back == IF entry = "run" THEN "done" ELSE "returned"
       IN  IF videos_to_upload = <<>>
           THEN /\ pc' = back /\ ret' = <<>>
                /\ UNCHANGED <<heap, authenticated, batch, h>>
           ELSE IF downloaded_videos = <<>>
           THEN /\ pc' = back /\ ret' = videos_to_upload
                /\ UNCHANGED <<heap, authenticated, batch, h>>
           ELSE IF ~(authenticated \/ login_ok)
           THEN /\ heap' = [v \in DOMAIN heap |->
                              IF heap[v].status = DOWNLOADED
                                 /\ \E k \in DOMAIN videos_to_upload : videos_to_upload[k] = v
                              THEN [heap[v] EXCEPT !.status = UPLOAD_FAILED,
                                                   !.error_message = "Authentication failed"]
                              ELSE heap[v]]
                /\ h' = [h EXCEPT !.touched = @ \cup
                            {downloaded_videos[k] : k \in DOMAIN downloaded_videos}]
                /\ pc' = back /\ ret' = videos_to_upload
                /\ UNCHANGED <<authenticated, batch>>
           ELSE /\ authenticated' = TRUE
                /\ batch' = downloaded_videos
                /\ pc' = "umv_begin"
                /\ UNCHANGED <<heap, ret, h>>
    /\ UNCHANGED <<storeVars, web, calc, legacy, smVars, retry_count, videos, entry, urls, dlVars, to_upload,
                   todo, idx, cur, depth, loopVars, script>>

\* the end of Automation.upload_videos, after upload_multiple_videos returned
UploadVideosFinish(logout_ok) ==
    /\ pc = "umv_return"
    /\ videos' = batch
    /\ authenticated' = IF logout_ok THEN FALSE ELSE authenticated
    /\ ret' = batch
    /\ pc' = IF entry = "run" THEN "done" ELSE "returned"
    /\ UNCHANGED <<storeVars, web, calc, legacy, smVars, retry_count, heap, entry, urls, dlVars, umvVars, cur,
                   depth, loopVars, script, h>>

Statuses ==
    {PENDING, DOWNLOADING, DOWNLOADED, DOWNLOAD_FAILED, UPLOADING, UPLOADED,
     UPLOAD_FAILED}

\* Automation.get_status_summary on the list vs of objects of the heap hp
get_status_summary(vs, hp) ==
    [total |-> Len(vs),
     by_status |-> [st \in Statuses |->
                        Cardinality({k \in DOMAIN vs : hp[vs[k]].status = st})]]

----------------------------------------------------------------------------
(* Uploader *)

\* upload_multiple_videos up to the first iteration of its loop
UploadMultipleBegin ==
    /\ pc = "umv_begin"
    /\ LET videos_to_upload == downloaded_only(batch, heap)
       IN  /\ todo' = videos_to_upload
           /\ IF videos_to_upload = <<>>
              THEN /\ pc' = ReturnFrom("upload_multiple_videos", "umv_return")
                   /\ ret' = IF entry = "upload_multiple_videos" THEN batch ELSE ret
                   /\ UNCHANGED <<idx, cur>>
              ELSE /\ idx' = 1
                   /\ cur' = videos_to_upload[1]
                   /\ pc' = "uvm_begin"
                   /\ ret' = ret
    /\ UNCHANGED <<storeVars, web, calc, legacy, smVars, upVars, heap, videos, entry, urls, dlVars, to_upload,
                   batch, depth, loopVars, script, h>>

\* upload_video going on to the publish call although the quota check denied
upload_video_gate_unguarded(auth, acts, t, cfg, file_exists) ==
    IF ~auth THEN "unauthenticated"
    ELSE IF ~file_exists THEN "no_file"
    ELSE "go"

\* upload_video up to the try block: "go" when the publish call is to be made
upload_video_gate(auth, acts, t, cfg, file_exists) ==
    IF ~auth THEN "unauthenticated"
    ELSE IF ~can_perform_action(acts, t, cfg, ACTION_POST).ok THEN "blocked"
    ELSE IF ~file_exists THEN "no_file"
    ELSE "go"

\* the can_perform_action call made by upload_video, if it gets that far
GateCheck(auth, t) ==
    IF auth
    THEN [action_type |-> ACTION_POST,
          result |-> can_perform_action(actions, t, settings, ACTION_POST)]
    ELSE check

\* every sub-step waiting the delay configured for the comment
stage_delay_shared(cfg, stage) == cfg.auto_comment_delay

\* the seconds upload_video_metadata sleeps before an engagement sub-step
stage_delay(cfg, stage) ==
    CASE stage = "comment" -> cfg.auto_comment_delay
      [] stage = "reply" -> cfg.auto_reply_delay
      [] stage = "like" -> cfg.auto_like_comment_delay

\* the engagement sub-step that follows the one named stage
NextStage(stage) ==
    IF stage = "publish" /\ settings.auto_comment_enabled THEN "comment"
    ELSE IF stage \in {"publish", "comment"} /\ settings.auto_reply_enabled THEN "reply"
    ELSE IF stage \in {"publish", "comment", "reply"} /\ settings.auto_like_comments
         THEN "like"
    ELSE ReturnFrom("upload_video_metadata", "uvm_return")

\* upload_video_metadata and upload_video up to the publish call
UploadBegin(file_exists) ==
    /\ pc = "uvm_begin"
    /\ LET gate == upload_video_gate(authenticated, actions, now, settings, file_exists)
           done == ReturnFrom("upload_video_metadata", "uvm_return")
       IN  IF heap[cur].status # DOWNLOADED
           THEN /\ heap' = SetStatus(heap, cur, UPLOAD_FAILED,
                                "Video not ready for upload. Status: upload_failed")
                /\ pc' = done
                /\ check' = check
                /\ h' = [h EXCEPT !.calls = 0, !.retry_after = "none",
                                  !.touched = @ \cup {cur}, !.slept = <<>>]
           ELSE /\ check' = GateCheck(authenticated, now)
                /\ h' = [h EXCEPT !.calls = 0, !.retry_after = "none",
                                  !.touched = @ \cup {cur}, !.slept = <<>>,
                                  !.denied = IF gate = "blocked" THEN @ \cup {cur} ELSE @]
                /\ IF gate = "go"
                   THEN /\ heap' = SetStatus(heap, cur, UPLOADING, heap[cur].error_message)
                        /\ pc' = "publish"
                   ELSE /\ heap' = SetStatus(heap, cur, UPLOAD_FAILED,
                                        "Upload failed - no media ID returned")
                        /\ pc' = done
    /\ depth' = 0
    /\ ret' = IF pc' = "returned" THEN <<cur>> ELSE ret
    /\ UNCHANGED <<storeVars, web, calc, legacy, now, settings, actions, upVars, videos, entry, urls, dlVars,
                   umvVars, cur, loopVars, script>>

PublishOutcomes ==
    {"ok", "login_required", "rate_limited", "two_factor", "challenge",
     "transient", "try_again"}

\* one attempt: clip_upload, then video_upload if clip_upload raised; when both
\* raise, the exception of clip_upload is the one that propagates
publish_attempt(clip, video) == IF clip = "ok" \/ video = "ok" THEN "ok" ELSE clip

\* the media id taken from the object as it is, empty when it has none
media_id_of_unchecked(pk) == pk

\* the media id upload_video returns for the object the client returned
media_id_of(pk) == IF pk # "" THEN pk ELSE "uploaded"

Min(a, b) == IF a <= b THEN a ELSE b

RECURSIVE Pow2(_)
Pow2(n) == IF n = 0 THEN 1 ELSE 2 * Pow2(n - 1)

\* the sleep after an attempt without the ceiling of one hour
sleep_after_uncapped(outcome, cfg, retries) ==
    IF outcome = "rate_limited"
    THEN IF cfg.enable_exponential_backoff
         THEN cfg.retry_base_delay * Pow2(retries)
         ELSE 0
    ELSE IF outcome = "try_again" THEN 300 ELSE 0

\* seconds upload_video sleeps after the outcome of an attempt
sleep_after(outcome, cfg, retries) ==
    IF outcome = "rate_limited"
    THEN IF cfg.enable_exponential_backoff
         THEN Min(cfg.retry_base_delay * Pow2(retries), 3600)
         ELSE 0
    ELSE IF outcome = "try_again" THEN 300 ELSE 0

\* what upload_video does after an attempt: "return_id", "reenter" (the call
\* upload_video makes to itself after LoginRequired) or "return_none"
after_attempt(outcome, login_result) ==
    IF outcome = "ok" THEN "return_id"
    ELSE IF outcome = "login_required" /\ login_result THEN "reenter"
    ELSE "return_none"

\* the try block of upload_video: one publish attempt and what follows it
Publish(clip, video, pk, file_exists, d) ==
    /\ pc = "publish"
    /\ MayTake(d)
    /\ clip \in PublishOutcomes /\ video \in {"ok", "error"}
    /\ script # <<>> => clip = Head(script) /\ video = (IF clip = "ok" THEN "ok" ELSE "error")
    /\ script' = IF script # <<>> THEN Tail(script) ELSE script
    /\ LET outcome == publish_attempt(clip, video)
           t == now + d
           \* login() inside the handler: _authenticated is set, so it returns True
           step == after_attempt(outcome, authenticated)
           gate == upload_video_gate(authenticated, actions, t, settings, file_exists)
           failed == ReturnFrom("upload_video_metadata", "uvm_return")
       IN  /\ now' = t + sleep_after(outcome, settings, retry_count)
           /\ actions' = IF outcome = "ok" THEN record_action(actions, t, ACTION_POST)
                         ELSE IF outcome = "rate_limited"
                              THEN record_action(actions, t, RATE_LIMIT)
                              ELSE actions
           /\ Persist(outcome \in {"ok", "rate_limited"}, t)
           /\ retry_count' = IF outcome = "ok" THEN 0 ELSE retry_count
           /\ check' = IF step = "reenter" /\ depth < MaxDepth
                       THEN GateCheck(authenticated, t) ELSE check
           /\ CASE step = "return_id" ->
                    /\ heap' = [heap EXCEPT ![cur] = [@ EXCEPT
                                    !.post_id = media_id_of(pk), !.status = UPLOADED]]
                    /\ pc' = NextStage("publish")
                    /\ depth' = depth
                    /\ h' = [h EXCEPT !.calls = @ + 1, !.retry_after = "none",
                                      !.published = @ \cup {cur}]
                [] step = "reenter" /\ depth >= MaxDepth ->
                    \* RecursionError, caught by upload_video_metadata
                    /\ heap' = SetStatus(heap, cur, UPLOAD_FAILED,
                                         "maximum recursion depth exceeded")
                    /\ pc' = failed
                    /\ depth' = depth
                    /\ h' = [h EXCEPT !.calls = @ + 1, !.retry_after = "none"]
                [] step = "reenter" /\ depth < MaxDepth /\ gate = "go" ->
                    /\ heap' = heap
                    /\ pc' = "publish"
                    /\ depth' = depth + 1
                    /\ h' = [h EXCEPT !.calls = @ + 1, !.retry_after = outcome]
                [] OTHER ->
                    /\ heap' = SetStatus(heap, cur, UPLOAD_FAILED,
                                         "Upload failed - no media ID returned")
                    /\ pc' = failed
                    /\ depth' = depth
                    /\ h' = [h EXCEPT !.calls = @ + 1, !.retry_after = "none",
                                !.denied = IF step = "reenter" /\ gate = "blocked"
                                           THEN @ \cup {cur} ELSE @]
    /\ ret' = IF pc' = "returned" THEN <<cur>> ELSE ret
    /\ UNCHANGED <<web, calc, legacy, settings, authenticated, videos, entry, urls, dlVars, umvVars,
                   cur, loopVars>>

\* comment_on_post letting an exception of the client escape
comment_on_post_raising(allowed, outcome) ==
    IF allowed /\ outcome = "ok" THEN "posted"
    ELSE IF allowed /\ outcome = "error" THEN "raised"
    ELSE "not_posted"

\* comment_on_post: "posted" (recorded, True), "not_posted" (False); every
\* exception of the client is caught inside comment_on_post
comment_on_post(allowed, outcome) ==
    IF allowed /\ outcome = "ok" THEN "posted" ELSE "not_posted"

\* the auto-comment sub-step of upload_video_metadata
Comment(outcome, d) ==
    /\ pc = "comment"
    /\ MayTake(d)
    /\ outcome \in {"ok", "empty", "error"}
    /\ LET t == now + d
           result == can_perform_action(actions, t, settings, ACTION_COMMENT)
           done == comment_on_post(result.ok, outcome)
       IN  /\ now' = t
           /\ check' = [action_type |-> ACTION_COMMENT, result |-> result]
           /\ actions' = IF done = "posted"
                         THEN record_action(actions, t, ACTION_COMMENT) ELSE actions
           /\ Persist(done = "posted", t)
           /\ IF done \in {"posted", "not_posted"}
              THEN heap' = heap /\ pc' = NextStage("comment")
              ELSE \* an exception that reaches upload_video_metadata
                   /\ heap' = SetStatus(heap, cur, UPLOAD_FAILED, "comment error")
                   /\ pc' = ReturnFrom("upload_video_metadata", "uvm_return")
    /\ h' = [h EXCEPT !.slept = <<"comment", stage_delay(settings, "comment")>>]
    /\ ret' = IF pc' = "returned" THEN <<cur>> ELSE ret
    /\ UNCHANGED <<web, calc, legacy, settings, upVars, videos, entry, urls, dlVars, umvVars, cur,
                   depth, loopVars, script>>

\* the start of reply_to_comments or like_comments_on_post: the wait and the
\* fetch of n comments (none when the fetch raises)
FetchComments(stage, n, d) ==
    /\ pc = stage
    /\ stage \in {"reply", "like"}
    /\ MayTake(d)
    /\ n \in 0..MaxComments
    /\ now' = now + d
    /\ n_done' = 0
    /\ IF n = 0
       THEN n_left' = 0 /\ pc' = NextStage(stage)
       ELSE /\ n_left' = IF stage = "like"
                         THEN Min(n, settings.auto_like_max_per_post) ELSE n
            /\ pc' = IF stage = "reply" THEN "reply_loop" ELSE "like_loop"
    /\ h' = [h EXCEPT !.slept = <<stage, stage_delay(settings, stage)>>]
    /\ ret' = IF pc' = "returned" THEN <<cur>> ELSE ret
    /\ UNCHANGED <<storeVars, web, calc, legacy, settings, actions, check, upVars, heap, videos, entry, urls,
                   dlVars, umvVars, cur, depth, script>>

\* what one iteration of the reply loop does: "continue" without a reply,
\* "break", or "replied"
reply_step(outcome, allowed, replied_count, cfg) ==
    IF outcome = "already_replied" THEN "continue"
    ELSE IF ~allowed THEN "break"
    ELSE IF replied_count >= cfg.auto_reply_max_per_post THEN "break"
    ELSE IF outcome = "error" THEN "continue"
    ELSE "replied"

\* the like loop without the quota check before the like
like_step_unchecked(outcome, allowed) ==
    IF outcome = "error" THEN "continue" ELSE "liked"

\* what one iteration of the like loop does
like_step(outcome, allowed) ==
    IF ~allowed THEN "break"
    ELSE IF outcome = "error" THEN "continue"
    ELSE "liked"

\* one iteration of the loop of reply_to_comments
ReplyStep(outcome, d) ==
    /\ pc = "reply_loop"
    /\ MayTake(d)
    /\ outcome \in {"already_replied", "ok", "error"}
    /\ LET result == can_perform_action(actions, now, settings, ACTION_REPLY)
           step == reply_step(outcome, result.ok, n_done, settings)
       IN  /\ step # "replied" => d = 0
           /\ check' = IF outcome = "already_replied" THEN check
                       ELSE [action_type |-> ACTION_REPLY, result |-> result]
           /\ actions' = IF step = "replied"
                         THEN record_action(actions, now + d, ACTION_REPLY) ELSE actions
           /\ Persist(step = "replied", now + d)
           /\ now' = IF step = "replied" THEN now + d ELSE now
           /\ n_done' = IF step = "replied" THEN n_done + 1 ELSE n_done
           /\ n_left' = IF step = "break" THEN 0 ELSE n_left - 1
           /\ pc' = IF n_left' = 0 THEN NextStage("reply") ELSE "reply_loop"
    /\ ret' = IF pc' = "returned" THEN <<cur>> ELSE ret
    /\ UNCHANGED <<web, calc, legacy, settings, upVars, heap, videos, entry, urls, dlVars, umvVars,
                   cur, depth, script, h>>

\* one iteration of the loop of like_comments_on_post
LikeStep(outcome, d) ==
    /\ pc = "like_loop"
    /\ MayTake(d)
    /\ outcome \in {"ok", "error"}
    /\ LET result == can_perform_action(actions, now, settings, ACTION_LIKE)
           step == like_step(outcome, result.ok)
       IN  /\ step # "liked" => d = 0
           /\ check' = [action_type |-> ACTION_LIKE, result |-> result]
           /\ actions' = IF step = "liked"
                         THEN record_action(actions, now + d, ACTION_LIKE) ELSE actions
           /\ Persist(step = "liked", now + d)
           /\ now' = IF step = "liked" THEN now + d ELSE now
           /\ n_done' = IF step = "liked" THEN n_done + 1 ELSE n_done
           /\ n_left' = IF step = "break" THEN 0 ELSE n_left - 1
           /\ pc' = IF n_left' = 0 THEN NextStage("like") ELSE "like_loop"
    /\ ret' = IF pc' = "returned" THEN <<cur>> ELSE ret
    /\ UNCHANGED <<web, calc, legacy, settings, upVars, heap, videos, entry, urls, dlVars, umvVars,
                   cur, depth, script, h>>

\* "Update original list": the first object of the list with the url of v is
\* replaced by v
update_original(list, hp, v) ==
    LET same == {i \in DOMAIN list : hp[list[i]].url = hp[v].url}
    IN  IF same = {} THEN list
        ELSE LET i == CHOOSE k \in same : \A j \in same : k <= j
             IN  [list EXCEPT ![i] = v]

\* the rest of an iteration of upload_multiple_videos, after
\* upload_video_metadata returned: the list update and the wait before the
\* next upload, or the return after the last one
BatchNext(d) ==
    /\ pc = "uvm_return"
    /\ batch' = update_original(batch, heap, cur)
    /\ IF idx < Len(todo)
       THEN /\ MayTake(d)
            /\ now' = now + d
            /\ idx' = idx + 1
            /\ cur' = todo[idx + 1]
            /\ pc' = "uvm_begin"
            /\ ret' = ret
       ELSE /\ d = 0
            /\ pc' = ReturnFrom("upload_multiple_videos", "umv_return")
            /\ ret' = IF entry = "upload_multiple_videos" THEN batch' ELSE ret
            /\ UNCHANGED <<now, idx, cur>>
    /\ UNCHANGED <<storeVars, web, calc, legacy, settings, actions, check, upVars, heap, videos, entry, urls,
                   dlVars, to_upload, todo, depth, loopVars, script, h>>

----------------------------------------------------------------------------
(* A run: Automation.run(urls, auto_upload=True) with a fresh ledger *)

\* a run starts at 23:00, an hour before local midnight
RunStart == 23 * Hour

\* The batches handed to a run, up to the order of the invalid URLs (which
\* validate_urls drops before anything else happens) and up to the names of
\* the valid ones: the invalid URLs come last and the first URL is A.
UrlBatches ==
    {b \in [1..MaxUrls -> Urls] :
        /\ \A i \in 1..(MaxUrls - 1) : ~validate_url(b[i]) => ~validate_url(b[i + 1])
        /\ validate_url(b[1]) => b[1] = "https://host/p/A/"}

RL == "rate_limited"
\* set-ups of the publish client: free, or rate-limited k times and then fine
Scripts == {<<>>, <<RL, "ok">>, <<RL, RL, "ok">>}

InitCommon ==
    /\ actions = <<>>
    /\ check = NoCheck
    /\ authenticated = FALSE
    /\ retry_count = 0
    /\ heap = <<>>
    /\ videos = <<>>
    /\ dl_urls = <<>>
    /\ results = <<>>
    /\ to_upload = <<>>
    /\ batch = <<>>
    /\ todo = <<>>
    /\ idx = 0
    /\ cur = 0
    /\ depth = 0
    /\ n_left = 0
    /\ n_done = 0
    /\ ret = <<>>
    /\ web = NoRuns
    /\ calc = NoCall
    /\ legacy = NoLegacy

\* no state file yet
NewStore == file = NoFile /\ hs = NoStoreHistory

Init ==
    /\ InitCommon
    /\ NewStore
    /\ now = RunStart
    /\ settings \in RunSettings
    /\ urls \in UrlBatches
    /\ script \in Scripts
    /\ h = [NoHistory EXCEPT !.scripted = script]
    /\ pc = "run"
    /\ entry = "run"

Steps ==
    \/ DownloadBegin
    \/ \E outcome \in {"ok", "error"} : DownloadFetch(outcome)
    \/ DownloadsDone
    \/ \E login_ok \in BOOLEAN : UploadVideosBegin(login_ok)
    \/ \E logout_ok \in BOOLEAN : UploadVideosFinish(logout_ok)
    \/ UploadMultipleBegin
    \/ \E file_exists \in BOOLEAN : UploadBegin(file_exists)
    \/ \E clip \in PublishOutcomes, video \in {"ok", "error"}, pk \in {"", "pk"},
          file_exists \in BOOLEAN, d \in Elapse :
            Publish(clip, video, pk, file_exists, d)
    \/ \E d \in Elapse : BatchNext(d)

EngageSteps ==
    \/ \E outcome \in {"ok", "empty", "error"}, d \in Elapse : Comment(outcome, d)
    \/ \E stage \in {"reply", "like"}, n \in 0..MaxComments, d \in Elapse :
            FetchComments(stage, n, d)
    \/ \E outcome \in {"already_replied", "ok", "error"}, d \in Elapse :
            ReplyStep(outcome, d)
    \/ \E outcome \in {"ok", "error"}, d \in Elapse : LikeStep(outcome, d)

Next == RunBegin \/ Steps

Spec == Init /\ [][Next]_vars

(* A run with engagement enabled *)

InitEngage ==
    /\ InitCommon
    /\ NewStore
    /\ now = RunStart
    /\ settings \in EngageSettings
    /\ urls \in {b \in UrlBatches :
                    \A i \in 1..MaxUrls : validate_url(b[i]) => i <= MaxEngageUrls}
    /\ script = <<>>
    /\ h = NoHistory
    /\ pc = "run"
    /\ entry = "run"

NextEngage == RunBegin \/ Steps \/ EngageSteps

SpecEngage == InitEngage /\ [][NextEngage]_vars

(* A run that the operator may interrupt *)

\* KeyboardInterrupt reaches Automation.run: the handlers below it catch
\* Exception only, so whatever run was doing is abandoned where it stands
\* and run returns self.videos
Interrupt ==
    /\ entry = "run"
    /\ pc \notin {"done", "interrupted"}
    /\ pc' = "interrupted"
    /\ ret' = videos
    /\ UNCHANGED <<smVars, storeVars, web, calc, legacy, upVars, heap, videos, entry, urls, dlVars,
                   umvVars, cur, depth, loopVars, script, h>>

InitInterrupt ==
    /\ Init
    /\ script = <<>>
    /\ settings.max_posts_per_hour = MaxCap /\ settings.max_posts_per_day = MaxCap

NextInterrupt == RunBegin \/ Steps \/ Interrupt

SpecInterrupt == InitInterrupt /\ [][NextInterrupt]_vars

----------------------------------------------------------------------------
(* The ledger driven directly: record_action and the clock *)

pipeVars == <<authenticated, retry_count, heap, videos, pc, entry, urls, dl_urls,
              results, to_upload, batch, todo, idx, cur, depth, n_left, n_done,
              ret, script, h>>

InitGuard ==
    /\ InitCommon
    /\ NewStore
    /\ now \in StartTimes
    /\ settings \in GuardSettings
    /\ urls = <<>>
    /\ script = <<>>
    /\ h = NoHistory
    /\ pc = "idle"
    /\ entry = "none"

RecordAction(action_type) ==
    /\ Len(actions) < MaxLedger
    /\ actions' = record_action(actions, now, action_type)
    /\ Persist(TRUE, now)
    /\ UNCHANGED <<web, calc, legacy, now, settings, check, pipeVars>>

Tick(d) ==
    /\ pc = "idle"
    /\ d > 0
    /\ MayTake(d)
    /\ now' = now + d
    /\ UNCHANGED <<storeVars, web, calc, legacy, settings, actions, check, pipeVars>>

NextGuard ==
    \/ \E T \in ActionTypes : RecordAction(T)
    \/ \E d \in Elapse : Tick(d)

SpecGuard == InitGuard /\ [][NextGuard]_vars

----------------------------------------------------------------------------
(* The orchestrator's operations called directly, in any order *)

InitOps ==
    /\ InitCommon
    /\ NewStore
    /\ now = RunStart
    /\ settings \in RunSettings
    /\ urls = <<>>
    /\ script = <<>>
    /\ h = NoHistory
    /\ pc = "idle"
    /\ entry = "none"

AllItems == [i \in 1..Len(heap) |-> i]

\* download_multiple_videos(us); download_video(url) is the case of one URL
CallDownload(us) ==
    /\ pc = "idle"
    /\ Len(heap) + Len(us) <= MaxItems
    \* up to the names of the valid URLs: the first one downloaded is A
    /\ (heap = <<>> /\ validate_url(us[1])) => us[1] = "https://host/p/A/"
    /\ entry' = "download_multiple_videos"
    /\ dl_urls' = us
    /\ results' = <<>>
    /\ pc' = "dl_loop"
    /\ UNCHANGED <<storeVars, web, calc, legacy, smVars, upVars, heap, videos, urls, umvVars, cur, depth,
                   loopVars, ret, script, h>>

\* Uploader.login()
CallLogin(login_ok) ==
    /\ pc = "idle"
    /\ authenticated' = (authenticated \/ login_ok)
    /\ UNCHANGED <<storeVars, web, calc, legacy, smVars, retry_count, heap, videos, pc, entry, urls, dlVars, umvVars,
                   cur, depth, loopVars, ret, script, h>>

\* upload_video_metadata(v)
CallUploadVideoMetadata(v) ==
    /\ pc = "idle"
    /\ v \in DOMAIN heap
    /\ entry' = "upload_video_metadata"
    /\ cur' = v
    /\ pc' = "uvm_begin"
    /\ UNCHANGED <<storeVars, web, calc, legacy, smVars, upVars, heap, videos, urls, dlVars, umvVars, depth,
                   loopVars, ret, script, h>>

\* upload_multiple_videos(list) on the list of all items
CallUploadMultiple ==
    /\ pc = "idle"
    /\ heap # <<>>
    /\ entry' = "upload_multiple_videos"
    /\ batch' = AllItems
    /\ pc' = "umv_begin"
    /\ UNCHANGED <<storeVars, web, calc, legacy, smVars, upVars, heap, videos, urls, dlVars, to_upload, todo,
                   idx, cur, depth, loopVars, ret, script, h>>

\* Automation.upload_videos(list) on the list of all items
CallUploadVideos ==
    /\ pc = "idle"
    /\ heap # <<>>
    /\ entry' = "upload_videos"
    /\ to_upload' = AllItems
    /\ pc' = "upload_videos"
    /\ UNCHANGED <<storeVars, web, calc, legacy, smVars, upVars, heap, videos, urls, dlVars, batch, todo, idx,
                   cur, depth, loopVars, ret, script, h>>

\* the caller has the returned value; the frames of the operation are gone
Return ==
    /\ pc = "returned"
    /\ pc' = "idle"
    /\ entry' = "none"
    /\ dl_urls' = <<>> /\ results' = <<>> /\ to_upload' = <<>> /\ batch' = <<>>
    /\ todo' = <<>> /\ idx' = 0 /\ cur' = 0 /\ depth' = 0
    /\ n_left' = 0 /\ n_done' = 0 /\ ret' = <<>>
    /\ check' = NoCheck
    /\ h' = NoHistory
    /\ UNCHANGED <<storeVars, web, calc, legacy, now, settings, actions, upVars, heap, videos, urls, script>>

Calls ==
    \/ Return
    \/ \E k \in 1..MaxItems : \E us \in [1..k -> Urls] : CallDownload(us)
    \/ \E login_ok \in BOOLEAN : CallLogin(login_ok)
    \/ \E v \in 1..MaxItems : CallUploadVideoMetadata(v)
    \/ CallUploadMultiple
    \/ CallUploadVideos
    \/ \E d \in Elapse : Tick(d)

NextOps == Calls \/ Steps

SpecOps == InitOps /\ [][NextOps]_vars

----------------------------------------------------------------------------
(* The ledger and its state file, one file operation at a time: the process
   is constructed, records actions, may fail to write, and may die *)

\* the process starts at midnight of the third day
StoreStart == 2 * Day
\* time passes between two calls half a day or a day at a time
StoreElapse == {12 * Hour, Day}

\* the action types recorded: one with a quota and one without
StoreTypes == {ACTION_POST, RATE_LIMIT}

\* ledgers an earlier process may have saved: a record that is a day old at
\* StoreStart and one that is half an hour old
EarlierLedger ==
    <<ActionRecord(StoreStart - Day, ACTION_POST),
      ActionRecord(StoreStart - 1800, ACTION_COMMENT)>>

\* an object of the action list with a key ActionRecord does not have
ForeignRecord ==
    [keys |-> RecordKeys \cup {"note"}, timestamp |-> StoreStart - 1800,
     action_type |-> ACTION_POST]

\* an object of the action list without its action_type
ShortRecord ==
    [keys |-> {"timestamp", "details"}, timestamp |-> StoreStart - 1800,
     action_type |-> ""]

\* documents that hold an object ActionRecord(**record) rejects, next to a
\* well-formed one
MalformedFiles ==
    {[written_whole(save_data(EarlierLedger, StoreStart - 1800)) EXCEPT
        !.written = Append(@, bad)] : bad \in {ForeignRecord, ShortRecord}}

\* what the process may find on disk when it starts
InitialFiles ==
    {NoFile,
     [NoFile EXCEPT !.state = "unreadable"],
     opened_for_write,
     written_up_to(save_data(EarlierLedger, StoreStart - 1800), 1),
     save_history(EarlierLedger, StoreStart - 1800)}
    \cup MalformedFiles

InitStore ==
    /\ InitCommon
    /\ now = StoreStart
    /\ settings \in {cfg \in GuardSettings : cfg.max_posts_per_day = MaxCap}
    /\ urls = <<>>
    /\ script = <<>>
    /\ h = NoHistory
    /\ file \in InitialFiles
    /\ hs = [snapshot |-> IF file = save_history(EarlierLedger, StoreStart - 1800)
                          THEN EarlierLedger ELSE <<>>,
             last_save |-> "none", at |-> 0]
    /\ pc = "down"
    /\ entry = "none"

storePipe == <<authenticated, retry_count, heap, videos, entry, urls, dl_urls,
               results, to_upload, batch, todo, idx, cur, depth, n_left, n_done,
               ret, script, h>>

\* SafetyManager.__init__: the ledger is loaded from the state file
Construct ==
    /\ pc = "down"
    /\ actions' = load_history(file, now)
    /\ hs' = [hs EXCEPT !.last_save = "none"]
    /\ pc' = "idle"
    /\ UNCHANGED <<now, settings, check, file, web, calc, legacy, storePipe>>

\* record_action up to the open of save_history: the record is appended, the
\* ledger pruned and the dictionary to save built
RecordBegin(action_type) ==
    /\ pc = "idle"
    /\ Len(actions) < MaxSaved
    /\ actions' = record_action(actions, now, action_type)
    /\ hs' = [hs EXCEPT !.at = now]
    /\ pc' = "save_open"
    /\ UNCHANGED <<now, settings, check, file, web, calc, legacy, storePipe>>

\* open(state_file, 'w'): the file is emptied, or the open raises and
\* save_history logs a warning
SaveOpen(ok) ==
    /\ pc = "save_open"
    /\ IF ok
       THEN file' = opened_for_write /\ pc' = "save_write" /\ hs' = hs
       ELSE file' = file /\ pc' = "idle" /\ hs' = [hs EXCEPT !.last_save = "failed"]
    /\ UNCHANGED <<now, settings, actions, check, web, calc, legacy, storePipe>>

\* json.dump: the next object of the list reaches the file, or, after the
\* last one, the rest of the document; or a write raises and save_history
\* logs a warning
SaveWrite(ok) ==
    /\ pc = "save_write"
    /\ LET data == save_data(actions, now)
           k == Len(file.written)
       IN  IF ~ok
           THEN file' = file /\ pc' = "idle"
                /\ hs' = [hs EXCEPT !.last_save = "failed"]
           ELSE IF k < Len(data.actions)
           THEN file' = written_up_to(data, k + 1) /\ pc' = "save_write" /\ hs' = hs
           ELSE file' = written_whole(data) /\ pc' = "idle"
                /\ hs' = [hs EXCEPT !.snapshot = actions, !.last_save = "ok"]
    /\ UNCHANGED <<now, settings, actions, check, web, calc, legacy, storePipe>>

\* the process dies: its memory is gone, the file is as it stands
Crash ==
    /\ pc \in {"idle", "save_open", "save_write"}
    /\ actions' = <<>>
    /\ pc' = "down"
    /\ UNCHANGED <<now, settings, check, storeVars, web, calc, legacy, storePipe>>

\* time passes between two calls
Wait(d) ==
    /\ pc = "idle"
    /\ d \in StoreElapse
    /\ now + d <= StoreStart + MaxDays * Day
    /\ now' = now + d
    /\ UNCHANGED <<settings, actions, check, storeVars, web, calc, legacy, pc, storePipe>>

NextStore ==
    \/ Construct
    \/ \E T \in StoreTypes : RecordBegin(T)
    \/ \E ok \in BOOLEAN : SaveOpen(ok)
    \/ \E ok \in BOOLEAN : SaveWrite(ok)
    \/ Crash
    \/ \E d \in StoreElapse : Wait(d)

SpecStore == InitStore /\ [][NextStore]_vars

----------------------------------------------------------------------------
(* Runs started through the web UI: every POST /process hands
   run_automation_background to BackgroundTasks, which runs a plain function
   in a worker thread; each run builds its own Automation and uploader, and
   every uploader takes the one SafetyManager of get_safety_manager.  A run
   is followed from one use of the ledger to the next; no lock is taken
   anywhere on the way. *)

\* where a run that has uploaded one more item goes on
AfterUpload(run) ==
    [pc |-> IF run.left > 1 THEN "check" ELSE "done", left |-> run.left - 1]

InitWeb ==
    /\ InitCommon
    /\ NewStore
    /\ now = RunStart
    /\ settings \in RunSettings
    /\ urls = <<>>
    /\ script = <<>>
    /\ h = NoHistory
    /\ pc = "serving"
    /\ entry = "none"

webPipe == <<authenticated, retry_count, heap, videos, pc, entry, urls, dl_urls,
             results, to_upload, batch, todo, idx, cur, depth, n_left, n_done,
             ret, script, calc, legacy, h>>

\* process_urls and run_automation_background up to the first upload_video:
\* the run has downloaded n videos and logged in
ProcessUrls(r, n) ==
    /\ web[r].pc = "idle"
    /\ n \in 1..MaxUrls
    /\ web' = [web EXCEPT ![r] = [pc |-> "check", left |-> n]]
    /\ UNCHANGED <<smVars, storeVars, webPipe>>

\* upload_video of run r up to the publish call: the quota check
WebCheck(r) ==
    /\ web[r].pc = "check"
    /\ LET result == can_perform_action(actions, now, settings, ACTION_POST)
       IN  /\ check' = [action_type |-> ACTION_POST, result |-> result]
           /\ web' = [web EXCEPT ![r] = IF result.ok THEN [@ EXCEPT !.pc = "publish"]
                                        ELSE AfterUpload(@)]
    /\ UNCHANGED <<now, settings, actions, storeVars, webPipe>>

\* the publish call of run r returns a media object or raises
WebPublish(r, outcome) ==
    /\ web[r].pc = "publish"
    /\ outcome \in {"ok", "error"}
    /\ web' = [web EXCEPT ![r] = IF outcome = "ok" THEN [@ EXCEPT !.pc = "record"]
                                 ELSE AfterUpload(@)]
    /\ UNCHANGED <<smVars, storeVars, webPipe>>

\* record_action('post') of run r after its publish call
WebRecord(r) ==
    /\ web[r].pc = "record"
    /\ actions' = record_action(actions, now, ACTION_POST)
    /\ Persist(TRUE, now)
    /\ web' = [web EXCEPT ![r] = AfterUpload(@)]
    /\ UNCHANGED <<now, settings, check, webPipe>>

NextWeb ==
    \/ \E r \in Runs, n \in 1..MaxUrls : ProcessUrls(r, n)
    \/ \E r \in Runs : WebCheck(r)
    \/ \E r \in Runs, outcome \in {"ok", "error"} : WebPublish(r, outcome)
    \/ \E r \in Runs : WebRecord(r)

SpecWeb == InitWeb /\ [][NextWeb]_vars

----------------------------------------------------------------------------
(* SafetyManager: the cool-down before an action and the random delays *)

Max(a, b) == IF a >= b THEN a ELSE b

\* int(x * 0.1), int(x * 0.2) and int(x * 0.8) for an integer x >= 0
tenth(x) == x \div 10
two_tenths(x) == (x * 2) \div 10
eight_tenths(x) == (x * 8) \div 10

\* the hourly caps check_and_wait_if_needed reads
hourly_limits(cfg) ==
    [post    |-> cfg.max_posts_per_hour,
     comment |-> cfg.max_comments_per_hour,
     like    |-> cfg.max_likes_per_hour,
     reply   |-> cfg.max_comments_per_hour]

\* the wait_time check_and_wait_if_needed computes for its message after a
\* denial, in seconds; 0 when the reason names neither window
wait_time(acts, t, denial, action_type) ==
    IF denial.window = "Hourly" THEN 3600 - (t % 3600)
    ELSE IF denial.window = "Daily" THEN (today_start(t) + Day) - t
    ELSE 0

\* check_and_wait_if_needed sleeping the safety delay after a denial too
check_and_wait_if_needed_blocking(acts, t, cfg, action_type) ==
    IF ~can_perform_action(acts, t, cfg, action_type).ok
    THEN [ok |-> FALSE, slept |-> 300,
          wait |-> wait_time(acts, t, can_perform_action(acts, t, cfg, action_type),
                             action_type)]
    ELSE [ok |-> TRUE, slept |-> 0, wait |-> 0]

\* check_and_wait_if_needed: its return value, the seconds it sleeps and the
\* wait it reports
check_and_wait_if_needed(acts, t, cfg, action_type) ==
    IF ~can_perform_action(acts, t, cfg, action_type).ok
    THEN [ok |-> FALSE, slept |-> 0,
          wait |-> wait_time(acts, t, can_perform_action(acts, t, cfg, action_type),
                             action_type)]
    ELSE IF /\ action_type \in DOMAIN hourly_limits(cfg)
            /\ get_action_count(acts, t, action_type, 1)
                    >= eight_tenths(hourly_limits(cfg)[action_type])
         THEN [ok |-> TRUE, slept |-> 300, wait |-> 0]
         ELSE [ok |-> TRUE, slept |-> 0, wait |-> 0]

\* an argument that is None stands for the setting
or_default(o, default) == IF o = None THEN default ELSE o[1]

\* the outcomes random.randint(lo, hi) can have
randint(lo, hi) == lo..hi

\* get_random_delay returning the perturbed sample as it is
get_random_delay_unfloored(cfg, min_seconds, max_seconds, sample, perturb) ==
    sample + perturb

\* get_random_delay, for the outcomes sample and perturb of its two
\* random.randint calls: sample in randint(min, max), perturb in
\* randint(-variation, variation) with variation = int(sample * 0.1)
get_random_delay(cfg, min_seconds, max_seconds, sample, perturb) ==
    Max(sample + perturb, or_default(min_seconds, cfg.post_delay_random_min))

\* the seconds wait_with_random_delay sleeps, for the outcome jitter of the
\* random.randint of its first branch and the outcomes of get_random_delay
\* in its second
wait_with_random_delay(cfg, base_delay, min_seconds, max_seconds, sample, perturb, jitter) ==
    IF min_seconds = None /\ max_seconds = None
    THEN base_delay + jitter
    ELSE get_random_delay(cfg, min_seconds, max_seconds, sample, perturb)

----------------------------------------------------------------------------
(* The cool-down driven directly: record_action and
   check_and_wait_if_needed on one ledger *)

\* the action types recorded: one with an hourly cap and one without
PolicyTypes == {ACTION_POST, RATE_LIMIT}

InitPolicy ==
    /\ InitCommon
    /\ NewStore
    /\ now = RunStart
    /\ settings \in RunSettings
    /\ urls = <<>>
    /\ script = <<>>
    /\ h = NoHistory
    /\ pc = "idle"
    /\ entry = "none"

\* check_and_wait_if_needed(action_type): the check, and the safety delay
\* slept when the count is close to the cap
CheckAndWait(action_type) ==
    /\ pc = "idle"
    /\ LET r == check_and_wait_if_needed(actions, now, settings, action_type)
       IN  /\ now + r.slept <= RunStart + MaxCooldowns * 300
           /\ check' = [action_type |-> action_type,
                        result |-> can_perform_action(actions, now, settings,
                                                      action_type)]
           /\ calc' = [fn |-> "check_and_wait_if_needed",
                       args |-> <<action_type, now>>, result |-> r.slept,
                       ok |-> r.ok, wait |-> r.wait]
           /\ now' = now + r.slept
    /\ UNCHANGED <<settings, actions, storeVars, web, legacy, pipeVars>>

NextPolicy ==
    \/ \E T \in PolicyTypes : RecordAction(T)
    \/ \E T \in ActionTypes : CheckAndWait(T)

SpecPolicy == InitPolicy /\ [][NextPolicy]_vars

----------------------------------------------------------------------------
(* The delay functions called once, on arguments and random outcomes drawn
   from bounded sets *)

\* values of retry_base_delay: none, a second, the default, the ceiling, more
Bases == {0, 1, 60, 3600, 4000}
\* values of min_seconds: none, the least with a perturbation, one more
Minima == {0, 10, 25}

InitDelay ==
    /\ InitCommon
    /\ NewStore
    /\ now = RunStart
    /\ settings \in RunSettings
    /\ urls = <<>>
    /\ script = <<>>
    /\ h = NoHistory
    /\ pc = "idle"
    /\ entry = "none"

delayRest == <<smVars, storeVars, web, legacy, authenticated, retry_count, heap, videos,
               entry, urls, dl_urls, results, to_upload, batch, todo, idx, cur,
               depth, n_left, n_done, ret, script, h>>

\* the wait upload_video computes after PleaseWaitFewMinutes, for a retry
\* count and a configuration of the backoff
Backoff(attempt, base, enabled) ==
    /\ pc = "idle"
    /\ attempt \in 0..MaxAttempt /\ base \in Bases /\ enabled \in BOOLEAN
    /\ LET cfg == [settings EXCEPT !.retry_base_delay = base,
                                   !.enable_exponential_backoff = enabled]
       IN  calc' = [fn |-> "backoff", args |-> <<attempt, base, enabled>>,
                    result |-> sleep_after(RL, cfg, attempt), ok |-> TRUE, wait |-> 0]
    /\ pc' = "called"
    /\ UNCHANGED delayRest

\* get_random_delay(lo, hi), for every outcome of its two random.randint
\* calls
RandomDelay(lo, hi) ==
    /\ pc = "idle"
    /\ lo \in Minima /\ hi \in lo..(lo + MaxSpread)
    /\ \E sample \in randint(lo, hi) :
         \E perturb \in randint(-tenth(sample), tenth(sample)) :
            calc' = [fn |-> "get_random_delay", args |-> <<lo, hi, sample, perturb>>,
                     result |-> get_random_delay(settings, Some(lo), Some(hi),
                                                 sample, perturb),
                     ok |-> TRUE, wait |-> 0]
    /\ pc' = "called"
    /\ UNCHANGED delayRest

\* the base delay upload_multiple_videos gets for a sample and a perturbation
pacing_base(cfg, sample, perturb) ==
    get_random_delay(cfg, Some(cfg.post_delay_random_min),
                     Some(cfg.post_delay_random_max), sample, perturb)

\* the wait of upload_multiple_videos before the next upload: the value of
\* get_random_delay is handed to wait_with_random_delay as its base delay;
\* the sample is one of those next to the configured minimum, the other
\* random outcomes are all there are
UploadPacing(sample) ==
    /\ pc = "idle"
    /\ sample \in randint(settings.post_delay_random_min,
                           Min(settings.post_delay_random_min + MaxSpread,
                               settings.post_delay_random_max))
    /\ \E perturb \in randint(-tenth(sample), tenth(sample)) :
         LET random_delay == pacing_base(settings, sample, perturb)
         IN  \E jitter \in randint(-tenth(random_delay), two_tenths(random_delay)) :
                calc' = [fn |-> "upload_pacing", args |-> <<random_delay>>,
                         result |-> wait_with_random_delay(settings, random_delay,
                                        None, None, 0, 0, jitter),
                         ok |-> TRUE, wait |-> 0]
    /\ pc' = "called"
    /\ UNCHANGED delayRest

NextDelay ==
    \/ \E attempt \in 0..MaxAttempt, base \in Bases, enabled \in BOOLEAN :
            Backoff(attempt, base, enabled)
    \/ \E lo \in Minima, spread \in 0..MaxSpread : RandomDelay(lo, lo + spread)
    \/ \E k \in 0..MaxSpread : UploadPacing(settings.post_delay_random_min + k)

SpecDelay == InitDelay /\ [][NextDelay]_vars

----------------------------------------------------------------------------
(* The legacy downloader: src/download_videos.py *)

\* extract_shortcode_from_url: the path segment after 'p' or 'reel', or None
extract_shortcode_from_url(url) ==
    IF url = "https://host/p/A/" THEN "A"
    ELSE IF url = "https://host/p/B/" THEN "B"
    ELSE NoValue

\* What one pass of the retry loop of download_video gives: the file is there
\* ("file"), the post is not a video, instaloader returned without a file, or
\* instaloader or anything else raised
AttemptOutcomes == {"file", "not_video", "no_file", "loader_error", "error"}

\* the retry loop sleeping after its last attempt too
after_attempt_legacy_always_sleeping(outcome, attempt, max_retries) ==
    [return |-> IF outcome = "file" THEN "metadata"
                ELSE IF outcome = "not_video" \/ attempt >= max_retries THEN "none"
                ELSE "no",
     slept |-> outcome \in {"loader_error", "error"}]

\* what download_video does after the attempt numbered attempt: whether it
\* returns (the metadata or None) and whether it sleeps retry_delay
after_attempt_legacy(outcome, attempt, max_retries) ==
    [return |-> IF outcome = "file" THEN "metadata"
                ELSE IF outcome = "not_video" \/ attempt >= max_retries THEN "none"
                ELSE "no",
     slept |-> outcome \in {"loader_error", "error"} /\ attempt < max_retries]

\* the entry download_multiple_videos appends for what download_video returned
legacy_entry(url, returned, index) ==
    IF returned = "metadata"
    THEN [url |-> url, status |-> "downloaded", download_index |-> index]
    ELSE [url |-> url, status |-> "download_failed", download_index |-> index]

\* the batches handed to download_multiple_videos
LegacyBatches == UNION {[1..n -> Urls] : n \in 1..MaxLegacyUrls}

\* VideoDownloader(max_retries = 0..MaxRetries) and a call of
\* download_multiple_videos
InitLegacy ==
    /\ actions = <<>>
    /\ check = NoCheck
    /\ authenticated = FALSE
    /\ retry_count = 0
    /\ heap = <<>>
    /\ videos = <<>>
    /\ dl_urls = <<>>
    /\ results = <<>>
    /\ to_upload = <<>>
    /\ batch = <<>>
    /\ todo = <<>>
    /\ idx = 0
    /\ cur = 0
    /\ depth = 0
    /\ n_left = 0
    /\ n_done = 0
    /\ ret = <<>>
    /\ web = NoRuns
    /\ calc = NoCall
    /\ NewStore
    /\ now = RunStart
    /\ settings \in {cfg \in RunSettings :
                        cfg.max_posts_per_hour = 1 /\ cfg.max_posts_per_day = 1}
    /\ urls \in LegacyBatches
    /\ script = <<>>
    /\ h = NoHistory
    /\ pc = "dmv_loop"
    /\ entry = "legacy_download_multiple_videos"
    /\ \E max_retries \in 0..MaxRetries :
            legacy = [NoLegacy EXCEPT !.max_retries = max_retries, !.retry_delay = 5]

legacyRest == <<settings, actions, check, storeVars, web, calc, authenticated,
                retry_count, heap, videos, entry, urls, dl_urls, results, to_upload,
                batch, todo, idx, cur, depth, n_left, n_done, ret, script, h>>

\* download_video has returned to download_multiple_videos: the entry is
\* appended, the attempts and sleeps of the URL are logged, and the loop
\* sleeps 2 seconds before the next URL or returns after the last one
LegacyReturn(lg, returned, outcomes, sleeps, t) ==
    LET index == lg.index
        last == index = Len(urls) - 1
    IN  /\ legacy' = [lg EXCEPT
                !.downloaded_videos = Append(@, legacy_entry(urls[index + 1], returned,
                                                             index)),
                !.log = [outcomes |-> outcomes, sleeps |-> sleeps],
                !.slept = lg.slept + Cardinality(sleeps),
                !.index = index + 1, !.attempt = 0,
                !.outcomes = <<>>, !.sleeps = {}]
        /\ now' = IF last THEN t ELSE t + 2
        /\ pc' = IF last THEN "returned" ELSE "dmv_loop"

\* download_multiple_videos calls download_video, which extracts the
\* shortcode and enters the retry loop, or returns None at once
LegacyDownloadVideo ==
    /\ pc = "dmv_loop"
    /\ legacy.index < Len(urls)
    /\ IF extract_shortcode_from_url(urls[legacy.index + 1]) = NoValue
          \/ legacy.max_retries < 1
       THEN LegacyReturn(legacy, "none", <<>>, {}, now)
       ELSE /\ legacy' = [legacy EXCEPT !.attempt = 1]
            /\ pc' = "dv_attempt"
            /\ now' = now
    /\ UNCHANGED legacyRest

\* one pass of the retry loop of download_video
LegacyAttempt(outcome) ==
    /\ pc = "dv_attempt"
    /\ outcome \in AttemptOutcomes
    /\ LET after == after_attempt_legacy(outcome, legacy.attempt, legacy.max_retries)
           outcomes == Append(legacy.outcomes, outcome)
           sleeps == IF after.slept THEN legacy.sleeps \cup {legacy.attempt}
                     ELSE legacy.sleeps
           t == IF after.slept THEN now + legacy.retry_delay ELSE now
       IN  IF after.return = "no"
           THEN /\ legacy' = [legacy EXCEPT !.attempt = @ + 1, !.outcomes = outcomes,
                                            !.sleeps = sleeps]
                /\ now' = t
                /\ pc' = "dv_attempt"
           ELSE LegacyReturn(legacy, after.return, outcomes, sleeps, t)
    /\ UNCHANGED legacyRest

NextLegacy ==
    \/ LegacyDownloadVideo
    \/ \E outcome \in AttemptOutcomes : LegacyAttempt(outcome)

SpecLegacy == InitLegacy /\ [][NextLegacy]_vars

----------------------------------------------------------------------------
(* The ledger under a configuration with a cap of 0 *)

\* the configurations in which at least one cap is 0; likes and comments
\* share a cap of 0 or 1
UncappedSettings ==
    {cfg \in {[base EXCEPT !.max_posts_per_hour = per_hour,
                           !.max_posts_per_day = per_day,
                           !.max_comments_per_hour = other,
                           !.max_likes_per_hour = other] :
                 base \in {c \in GuardSettings :
                              /\ c.max_posts_per_hour = 1 /\ c.max_posts_per_day = 1
                              /\ c.max_comments_per_hour = 1},
                 per_hour \in 0..MaxCap, per_day \in 0..MaxCap, other \in {0, 1}} :
        \/ cfg.max_posts_per_hour = 0
        \/ cfg.max_posts_per_day = 0
        \/ cfg.max_comments_per_hour = 0}

InitUncapped ==
    /\ InitCommon
    /\ NewStore
    /\ now \in StartTimes
    /\ settings \in UncappedSettings
    /\ urls = <<>>
    /\ script = <<>>
    /\ h = NoHistory
    /\ pc = "idle"
    /\ entry = "none"

SpecUncapped == InitUncapped /\ [][NextGuard]_vars

----------------------------------------------------------------------------
(* Properties *)

Terminal == {DOWNLOAD_FAILED, UPLOAD_FAILED, UPLOADED}

\* the 'post' records stamped in the window (lo, hi]
PostsWithin(lo, hi) ==
    {i \in DOMAIN actions :
        /\ actions[i].action_type = "post"
        /\ lo < actions[i].timestamp /\ actions[i].timestamp <= hi}

MidnightBefore(t) == t - (t % Day)

CountOf(action_type) ==
    Cardinality({i \in DOMAIN actions : actions[i].action_type = action_type})

\* C1: the publish client is called only right after can_perform_action('post')
\* returned Allowed, and the ledger never holds more than max_posts_per_hour
\* 'post' records in a rolling hour (ending now or at any record) nor more
\* than max_posts_per_day 'post' records since local midnight.
C1_PostQuotaNeverExceeded ==
    /\ pc = "publish" => check.action_type = ACTION_POST /\ check.result.ok
    /\ (settings.max_posts_per_hour >= 1 /\ settings.max_posts_per_day >= 1) =>
        \A t \in {now} \cup {actions[i].timestamp : i \in DOMAIN actions} :
            /\ Cardinality(PostsWithin(t - Hour, t)) <= settings.max_posts_per_hour
            /\ Cardinality(PostsWithin(MidnightBefore(t), t)) <= settings.max_posts_per_day

\* a post cap is reached and a further upload has been denied
C1_Witness ==
    /\ h.denied # {}
    /\ h.published # {}
    /\ Cardinality(PostsWithin(now - Hour, now)) = settings.max_posts_per_hour

\* the records of a type stamped less than an hour ago
InLastHour(action_type) ==
    {i \in DOMAIN actions :
        actions[i].action_type = action_type /\ now - actions[i].timestamp < Hour}

HourlyCap(action_type) ==
    CASE action_type = "post" -> settings.max_posts_per_hour
      [] action_type = "like" -> settings.max_likes_per_hour
      [] OTHER -> settings.max_comments_per_hour

DailyCapReached(action_type) ==
    /\ action_type = "post"
    /\ Cardinality(PostsWithin(MidnightBefore(now), now)) >= settings.max_posts_per_day

\* C2: with hourly cap N >= 1 for a type, can_perform_action allows when N-1
\* records of the type lie in the rolling hour (daily cap not reached) and
\* denies when N records of the type lie in it.
C2_HourlyCapBoundary ==
    \A T \in {"post", "comment", "like", "reply"} :
        LET N == HourlyCap(T)
            c == Cardinality(InLastHour(T))
            r == can_perform_action(actions, now, settings, T)
        IN  N >= 1 =>
              /\ (c = N - 1 /\ ~DailyCapReached(T)) => r.ok
              /\ c = N => ~r.ok

\* N >= 2 records of one type lie in the rolling hour and the type is denied,
\* while another type with N-1 records is allowed
C2_Witness ==
    \E T, U \in {"post", "comment", "like", "reply"} :
        /\ HourlyCap(T) >= 2
        /\ Cardinality(InLastHour(T)) = HourlyCap(T)
        /\ ~can_perform_action(actions, now, settings, T).ok
        /\ Cardinality(InLastHour(U)) = HourlyCap(U) - 1
        /\ can_perform_action(actions, now, settings, U).ok

\* C3: when the post quota denies the upload of an item the batch halts: the
\* item keeps status Downloaded and no upload is begun afterwards.
C3_QuotaDenialHaltsBatch ==
    /\ \A v \in h.denied : heap[v].status = DOWNLOADED
    /\ pc \in {"uvm_begin", "publish"} => h.denied = {}

\* C4: when the publish client is rate-limited k < max_retry_attempts times
\* and then succeeds, the upload of the item is a success and the ledger gains
\* exactly k rate-limit records and one 'post' record.
C4_RateLimitedThenSuccess ==
    LET k == Len(h.scripted) - 1
    IN  (/\ h.scripted # <<>> /\ k < settings.max_retry_attempts
         /\ pc = "uvm_return" /\ idx = 1 /\ h.calls >= 1)
        => /\ heap[cur].status = UPLOADED
           /\ CountOf(RATE_LIMIT) = k
           /\ CountOf(ACTION_POST) = 1

\* C5: an upload_video call makes at most max_retry_attempts calls to the
\* publish client.
C5_BoundedPublishCalls == h.calls <= settings.max_retry_attempts

\* C6: after a Fatal failure of the publish call (login required, two-factor
\* required, challenge required) no further publish call is made for the item.
C6_FatalNotRetried ==
    pc = "publish" => h.retry_after \notin {"login_required", "two_factor", "challenge"}

\* C7: an item in status DownloadFailed, UploadFailed or Uploaded never changes
\* status, whatever operation is called.
C7_TerminalStatusFrozen ==
    [][\A v \in DOMAIN heap :
          heap[v].status \in Terminal => heap'[v].status = heap[v].status]_vars

\* C8: in a run, an item whose download failed stays DownloadFailed and is never
\* handled by the upload logic, and an Uploaded item never becomes Downloading.
C8_FailedDownloadUntouched ==
    [][/\ \A v \in h'.dl_failed :
            heap'[v].status = DOWNLOAD_FAILED /\ v \notin h'.touched
       /\ \A v \in DOMAIN heap :
            heap[v].status = UPLOADED => heap'[v].status # DOWNLOADING]_vars

\* a finished run in which one download failed and another item was uploaded
C8_Witness ==
    /\ pc = "done"
    /\ \E v \in h.dl_failed : heap[v].status = DOWNLOAD_FAILED
    /\ \E w \in DOMAIN heap : heap[w].status = UPLOADED /\ w \in h.touched

\* C9: download_multiple_videos returns one item per input URL, in input order;
\* a failed download is marked DownloadFailed with an error message and the
\* later URLs are still attempted.
C9_OneItemPerUrl ==
    /\ Len(results) <= Len(dl_urls)
    /\ pc \notin {"run", "dl_loop", "dl_fetch"} => Len(results) = Len(dl_urls)
    /\ \A k \in DOMAIN results :
        /\ heap[results[k]].url = dl_urls[k]
        /\ \A j \in DOMAIN results : j # k => results[j] # results[k]
        /\ heap[results[k]].status = DOWNLOAD_FAILED
              => heap[results[k]].error_message # NoValue
    /\ \A v \in h.dl_failed :
        heap[v].status = DOWNLOAD_FAILED /\ heap[v].error_message # NoValue

\* the first download failed and the second URL was still downloaded
C9_Witness ==
    /\ pc = "upload_videos"
    /\ Len(results) = 2
    /\ results[1] \in h.dl_failed
    /\ heap[results[2]].status = DOWNLOADED

\* C10: once the publish call of an item has succeeded the item is Uploaded,
\* whatever the comment, reply and like sub-steps do.
C10_EngagementKeepsUploaded ==
    \A v \in h.published : heap[v].status = UPLOADED

\* a finished run whose item was published, whose comment failed (no comment
\* record although commenting is enabled) and whose last engagement check
\* was a quota denial
C10_Witness ==
    /\ pc = "done"
    /\ h.published # {}
    /\ settings.auto_comment_enabled
    /\ CountOf(ACTION_COMMENT) = 0
    /\ check.action_type \in {ACTION_LIKE, ACTION_REPLY}
    /\ ~check.result.ok

\* C11: after a run the summary accounts for every item the download stage
\* produced exactly once under its final status: the total is the number of
\* those items, each of them is in the summarised list once, and the items
\* whose download failed are counted under download_failed.
C11_SummaryCountsEveryItem ==
    pc = "done" =>
        LET summary == get_status_summary(videos, heap)
        IN  /\ summary.total = Len(results)
            /\ \A k \in DOMAIN results :
                    Cardinality({j \in DOMAIN videos : videos[j] = results[k]}) = 1
            /\ summary.by_status[DOWNLOAD_FAILED] = Cardinality(h.dl_failed)

\* C12: when the operator interrupts a run, run returns the items processed
\* so far (every item whose download has finished is in the returned list)
\* and no returned item is in status Downloading or Uploading.
C12_InterruptReturnsPartialResult ==
    pc = "interrupted" =>
        /\ \A v \in DOMAIN heap :
                heap[v].status \notin {PENDING, DOWNLOADING}
                    => \E k \in DOMAIN ret : ret[k] = v
        /\ \A k \in DOMAIN ret : heap[ret[k]].status \notin {DOWNLOADING, UPLOADING}

\* C13: when the login of the upload stage fails the batch is aborted and
\* every item that is Downloaded keeps that status.
C13_AuthFailureKeepsDownloaded ==
    [][(/\ pc = "upload_videos" /\ pc' \in {"done", "returned"}
        /\ ~authenticated')
       => \A v \in DOMAIN heap :
            heap[v].status = DOWNLOADED => heap'[v].status = DOWNLOADED]_vars

\* C14: a reader of the state file never sees anything but a complete
\* document: whenever the file changes, what it changes to is a whole JSON
\* document.
C14_SaveIsAtomic ==
    [][file' # file => (file'.state = "text" /\ file'.closed)]_vars

\* C15: a SafetyManager constructed after the process died, in the middle of
\* save_history or elsewhere, holds the ledger of the last document written
\* in full, pruned to 24 hours, or an empty ledger.
C15_RestartLoadsSnapshotOrNothing ==
    [][(pc = "down" /\ pc' = "idle")
       => \/ actions' = <<>>
          \/ actions' = SelectSeq(hs.snapshot, LAMBDA a : now' - a.timestamp < Day)]_vars

\* the process died while json.dump was writing a ledger of two records, one
\* of them already in the file, and has been constructed again
C15_Witness ==
    /\ pc = "idle"
    /\ hs.last_save = "none"
    /\ file.state = "text" /\ ~file.closed /\ Len(file.written) = 1
    /\ file.written[1].timestamp >= StoreStart
    /\ actions = <<>>

\* the objects of the action list a ledger is saved as, in order
RecordsOf(acts) ==
    [i \in DOMAIN acts |->
        [timestamp |-> acts[i].timestamp, action_type |-> acts[i].action_type]]

\* the timestamps and types of the objects in the file, in order
RecordsIn(f) ==
    [i \in DOMAIN f.written |->
        [timestamp |-> f.written[i].timestamp, action_type |-> f.written[i].action_type]]

StoreMatchesLedger ==
    /\ file.state = "text" /\ file.closed
    /\ RecordsIn(file) = RecordsOf(actions)

ReloadKeepsCounts ==
    LET fresh == load_history(file, now)
    IN  \A T \in ActionTypes :
            /\ \A hours \in {1, 24, 48} :
                    get_action_count(fresh, now, T, hours)
                        = get_action_count(actions, now, T, hours)
            /\ get_action_count_today(fresh, now, T)
                    = get_action_count_today(actions, now, T)

C18_PruneInvariant ==
    /\ [][((pc = "idle" /\ pc' = "save_open") \/ (pc = "down" /\ pc' = "idle"))
          => \A i \in DOMAIN actions' : actions'[i].timestamp > now' - Day]_vars
    /\ [](\A T \in ActionTypes :
            get_action_count(actions, now, T, 24)
                <= Cardinality({i \in DOMAIN actions :
                        actions[i].action_type = T /\ now - actions[i].timestamp < Day}))

\* record_action has dropped a record exactly a day old from a ledger that
\* had been saved with it
C18_Witness ==
    /\ pc = "save_open"
    /\ Len(actions) = 1
    /\ hs.last_save = "ok"
    /\ \E i \in DOMAIN hs.snapshot : hs.snapshot[i].timestamp = now - Day

\* the file cannot be read, is not a JSON document, or holds a record with
\* a missing or an unknown field
Unusable(f) ==
    \/ f.state = "unreadable"
    \/ f.state = "text" /\ ~f.closed
    \/ f.state = "text" /\ \E i \in DOMAIN f.written :
            \/ "timestamp" \notin f.written[i].keys
            \/ "action_type" \notin f.written[i].keys
            \/ "note" \in f.written[i].keys

\* C19: constructing a SafetyManager on an unreadable or malformed state file
\* gives an empty ledger: every count is 0 and every action is allowed.
C19_MalformedStoreStartsEmpty ==
    [][(pc = "down" /\ pc' = "idle" /\ Unusable(file))
       => /\ actions' = <<>>
          /\ \A T \in ActionTypes :
                /\ get_action_count(actions', now', T, 24) = 0
                /\ get_action_count_today(actions', now', T) = 0
                /\ can_perform_action(actions', now', settings, T).ok]_vars

\* a SafetyManager has been constructed on a document that holds a recent
\* well-formed record next to a malformed one
C19_Witness ==
    /\ pc = "idle"
    /\ hs.last_save = "none"
    /\ file \in MalformedFiles
    /\ now = StoreStart
    /\ actions = <<>>

\* a run holds an upload between its Allowed quota check and its record
Holding(r) == web[r].pc \in {"publish", "record"}

\* C20: between a can_perform_action('post') that returned Allowed and the
\* record_action('post') of the same upload no other upload checks or records
\* a post, also when two runs started through /process share the ledger.
C20_QuotaStepsAreSequential ==
    [][\A r \in Runs, q \in Runs :
        (r # q /\ Holding(r) /\ web[q].pc \in {"check", "record"})
            => web'[q] = web[q]]_vars

\* the 'post' records stamped after the last midnight
PostsToday == PostsWithin(MidnightBefore(now), now)

\* C21: can_perform_action('post') checks the rolling hour before the calendar
\* day: with both caps reached the denial is the hourly one, with only the
\* daily cap reached it is the daily one, and the denial carries the count of
\* the ledger in that window and the configured cap.
C21_HourlyBeforeDaily ==
    LET r == can_perform_action(actions, now, settings, ACTION_POST)
        hourly == Cardinality(InLastHour(ACTION_POST))
        daily == Cardinality(PostsToday)
    IN  /\ hourly >= settings.max_posts_per_hour
            => r = Denied("Hourly", hourly, settings.max_posts_per_hour)
        /\ (hourly < settings.max_posts_per_hour /\ daily >= settings.max_posts_per_day)
            => r = Denied("Daily", daily, settings.max_posts_per_day)

\* the daily cap of posts alone is reached, by posts more than an hour old,
\* and the denial is the daily one
C21_Witness ==
    /\ PostsToday # {}
    /\ InLastHour(ACTION_POST) = {}
    /\ Cardinality(PostsToday) >= settings.max_posts_per_day
    /\ can_perform_action(actions, now, settings, ACTION_POST).window = "Daily"

\* the records of a type stamped at or after instant lo
StampedSince(action_type, lo) ==
    {i \in DOMAIN actions :
        actions[i].action_type = action_type /\ actions[i].timestamp >= lo}

\* C22: the daily window is aligned to the calendar day and the hourly window
\* rolls: get_action_count_today counts no record stamped before the last
\* local midnight, however young, and every record stamped after it, while
\* get_action_count(T, 1) counts exactly the records stamped less than 3600
\* seconds ago, wherever the clock hour begins.
C22_CalendarDayRollingHour ==
    \A T \in ActionTypes :
        LET today == get_action_count_today(actions, now, T)
        IN  /\ today <= Cardinality(StampedSince(T, MidnightBefore(now)))
            /\ today >= Cardinality(StampedSince(T, MidnightBefore(now) + 1))
            /\ get_action_count(actions, now, T, 1) = Cardinality(InLastHour(T))

\* half an hour after a record was made before midnight the day has changed:
\* the record counts for the hour and not for the day
C22_Witness ==
    \E i \in DOMAIN actions :
        /\ actions[i].timestamp < MidnightBefore(now)
        /\ now - actions[i].timestamp = 1800
        /\ get_action_count(actions, now, actions[i].action_type, 1) >= 1
        /\ get_action_count_today(actions, now, actions[i].action_type) = 0

\* the action types can_perform_action has no limits for: the rate-limit event
\* and a type the program never records
Unlimited == {RATE_LIMIT, "story"}

\* C23: for an action type without configured limits can_perform_action
\* returns Allowed, however many records of the type the ledger holds.
C23_UnlimitedTypeAllowed ==
    \A T \in Unlimited : can_perform_action(actions, now, settings, T) = Allowed

\* the ledger holds more rate-limit events in the last hour than any cap
C23_Witness ==
    /\ Cardinality(InLastHour(RATE_LIMIT)) > MaxCap
    /\ can_perform_action(actions, now, settings, RATE_LIMIT).ok

\* the number of records of a type in a ledger
RecordsOfType(acts, action_type) ==
    Cardinality({i \in DOMAIN acts : acts[i].action_type = action_type})

\* the step is a publish call that returned a media object
PublishSucceeds == pc = "publish" /\ heap'[cur].status = UPLOADED

\* C24: a 'post' record is appended exactly once for each successful publish
\* and by no other step (failed, blocked, unauthenticated, missing file,
\* rate-limited); a rate-limit event is a record of another type and leaves
\* the answer of the post quota as it is without it.
C24_PostRecordedOncePerPublish ==
    /\ [][RecordsOfType(actions', ACTION_POST)
            = RecordsOfType(actions, ACTION_POST) + (IF PublishSucceeds THEN 1 ELSE 0)]_vars
    /\ [](can_perform_action(actions, now, settings, ACTION_POST)
            = can_perform_action(
                SelectSeq(actions, LAMBDA a : a.action_type # RATE_LIMIT),
                now, settings, ACTION_POST))

\* after a rate-limited attempt on one item the publish of the next went
\* through: the ledger holds one rate-limit event and one post
C24_Witness ==
    /\ RecordsOfType(actions, RATE_LIMIT) = 1
    /\ RecordsOfType(actions, ACTION_POST) = 1
    /\ Cardinality(h.published) = 1
    /\ \E v \in DOMAIN heap : heap[v].status = UPLOAD_FAILED

\* the engagement sub-steps in the order of upload_video_metadata
SubSteps == <<"comment", "reply", "like">>

\* the position of the sub-step the program is in, 0 outside the sub-steps
SubStepAt(p) ==
    CASE p = "comment" -> 1
      [] p \in {"reply", "reply_loop"} -> 2
      [] p \in {"like", "like_loop"} -> 3
      [] OTHER -> 0

SubStepEnabled(k) ==
    CASE k = 1 -> settings.auto_comment_enabled
      [] k = 2 -> settings.auto_reply_enabled
      [] k = 3 -> settings.auto_like_comments

\* the delay configured for a sub-step, read from the configuration
ConfiguredDelay(k) ==
    CASE k = 1 -> settings.auto_comment_delay
      [] k = 2 -> settings.auto_reply_delay
      [] k = 3 -> settings.auto_like_comment_delay

\* the step performs the action of sub-step k: a record of its type appears
Performs(k) ==
    RecordsOfType(actions', SubSteps[k]) > RecordsOfType(actions, SubSteps[k])

\* the records of a type stamped less than an hour before instant t
InHourBefore(action_type, t) ==
    {i \in DOMAIN actions :
        actions[i].action_type = action_type /\ t - actions[i].timestamp < Hour}

\* C25: after a successful upload the enabled engagement sub-steps run in the
\* order comment, reply, like; a disabled sub-step is never entered and
\* performs nothing; a sub-step performs its action only on an uploaded item,
\* after the wait of its own configured delay, and only when the quota of its
\* own action type is not used up at that moment.
C25_EngagementOrderDelayQuota ==
    /\ [][(SubStepAt(pc) > 0 /\ SubStepAt(pc') > 0)
            => SubStepAt(pc') >= SubStepAt(pc)]_vars
    /\ [](SubStepAt(pc) > 0
            => SubStepEnabled(SubStepAt(pc)) /\ heap[cur].status = UPLOADED)
    /\ [][\A k \in 1..3 :
            Performs(k)
            => /\ SubStepAt(pc) = k
               /\ SubStepEnabled(k)
               /\ h'.slept = <<SubSteps[k], ConfiguredDelay(k)>>
               /\ Cardinality(InHourBefore(SubSteps[k],
                        actions'[Len(actions')].timestamp)) < HourlyCap(SubSteps[k])]_vars

\* all three sub-steps have acted on one upload: the ledger holds the post,
\* then a comment, a reply and a like in this order
C25_Witness ==
    /\ Len(actions) = 4
    /\ actions[1].action_type = ACTION_POST
    /\ actions[2].action_type = ACTION_COMMENT
    /\ actions[3].action_type = ACTION_REPLY
    /\ actions[4].action_type = ACTION_LIKE
    /\ h.slept = <<"like", settings.auto_like_comment_delay>>

\* C26: check_and_wait_if_needed adds the safety delay exactly when the
\* action is allowed and the rolling-hour count has reached 80% of the hourly
\* cap (count >= 0.8 * cap), for every type with a cap.
C26_CooldownAtEightyPercent ==
    [][(calc' # calc /\ calc'.fn = "check_and_wait_if_needed"
            /\ calc'.args[1] \in {"post", "comment", "like", "reply"})
       => LET T == calc'.args[1]
              count == Cardinality(InLastHour(T))
              allowed == can_perform_action(actions, now, settings, T).ok
          IN  (calc'.result > 0) <=> (allowed /\ 10 * count >= 8 * HourlyCap(T))]_vars

\* the rate-limit events at the end of a ledger: the signals since the last
\* successful upload
SignalsSinceSuccess(acts) ==
    LET others == {i \in DOMAIN acts : acts[i].action_type # RATE_LIMIT}
    IN  Cardinality({i \in DOMAIN acts : \A j \in others : j < i})

\* C27: across consecutive rate-limit signals with no successful upload in
\* between the attempt number grows by one per signal: the signal that
\* follows k others is followed by a wait of min(retry_base_delay * 2^k, 3600)
\* seconds, and a successful upload takes the attempt number back to 0.
C27_BackoffGrowsPerSignal ==
    [][RecordsOfType(actions', RATE_LIMIT) > RecordsOfType(actions, RATE_LIMIT)
       => LET k == SignalsSinceSuccess(actions)
              signalled_at == actions'[Len(actions')].timestamp
          IN  now' - signalled_at = Min(settings.retry_base_delay * Pow2(k), 3600)]_vars

\* C28: the wait after a rate-limit signal, as a function of the attempt
\* number and the base delay, is non-decreasing in the attempt number and
\* never more than the ceiling of 3600 seconds.
C28_BackoffMonotoneAndCapped ==
    calc.fn = "backoff"
    => LET attempt == calc.args[1]
           cfg == [settings EXCEPT !.retry_base_delay = calc.args[2],
                                   !.enable_exponential_backoff = calc.args[3]]
       IN  /\ calc.result <= Hour
           /\ \A earlier \in 0..attempt : sleep_after(RL, cfg, earlier) <= calc.result

\* with the default base of 60 seconds the seventh signal in a row would wait
\* 3840 seconds and waits the ceiling
C28_Witness ==
    /\ calc.fn = "backoff"
    /\ calc.args = <<6, 60, TRUE>>
    /\ calc.result = Hour

\* C29: get_random_delay(min_seconds, max_seconds) with 0 <= min_seconds <=
\* max_seconds returns at least min_seconds, whatever the uniform sample and
\* the perturbation of 10% turn out to be.
C29_RandomDelayAtLeastMin ==
    calc.fn = "get_random_delay" => calc.result >= calc.args[1]

\* the sample is the minimum and the perturbation takes it below: the
\* minimum is returned
C29_Witness ==
    /\ calc.fn = "get_random_delay"
    /\ calc.args[1] > 0
    /\ calc.args[3] + calc.args[4] < calc.args[1]
    /\ calc.result = calc.args[1]

\* C30: before every upload of a batch but the first the orchestrator sleeps
\* a random delay of at least post_delay_random_min seconds.
C30_PacingAtLeastMin ==
    calc.fn = "upload_pacing" => calc.result >= settings.post_delay_random_min

\* the step is a call of check_and_wait_if_needed for a type with a cap
CoolDownCall ==
    /\ calc' # calc
    /\ calc'.fn = "check_and_wait_if_needed"
    /\ calc'.args[1] \in {"post", "comment", "like", "reply"}

\* the stamp of the oldest record of a type in the rolling hour
OldestInHour(action_type) ==
    LET stamps == {actions[i].timestamp : i \in InLastHour(action_type)}
    IN  CHOOSE t \in stamps : \A u \in stamps : t <= u

\* C31: the wait reported with a denial is, for an hourly denial, the time
\* until the oldest record of the type in the rolling hour is an hour old,
\* and for a daily denial the time until the next local midnight.
C31_ReportedWait ==
    [][CoolDownCall
       => LET T == calc'.args[1]
              hourly == Cardinality(InLastHour(T)) >= HourlyCap(T)
          IN  /\ hourly => calc'.wait = OldestInHour(T) + Hour - now
              /\ (~hourly /\ DailyCapReached(T))
                    => calc'.wait = MidnightBefore(now) + Day - now]_vars

C32_InvalidUrlReported ==
    (entry = "run" /\ pc = "done")
        => \A i \in DOMAIN urls :
              ~validate_url(urls[i])
                 => \E k \in DOMAIN ret :
                       /\ heap[ret[k]].url = urls[i]
                       /\ heap[ret[k]].status \in {DOWNLOAD_FAILED, UPLOAD_FAILED}
                       /\ heap[ret[k]].error_message # NoValue

\* the records of a type in the rolling hour that ends at the record i
InHourEndingAt(action_type, i) ==
    {j \in DOMAIN actions :
        /\ actions[j].action_type = action_type
        /\ actions[j].timestamp <= actions[i].timestamp
        /\ actions[i].timestamp - actions[j].timestamp < Hour}

\* an iteration of the like loop or of the reply loop is being taken
EngagementIteration(action_type) ==
    pc = (IF action_type = ACTION_LIKE THEN "like_loop" ELSE "reply_loop")

\* C34: in the like loop and in the reply loop can_perform_action is asked
\* before every single like or reply, a record is appended for each one
\* performed and for no other iteration, and the loop stops at the first
\* denial; so within a run the 'like' records of any rolling hour never exceed
\* max_likes_per_hour and the 'reply' and the 'comment' records never exceed
\* max_comments_per_hour.
C34_EngagementLoopsRespectQuota ==
    /\ [](\A T \in {ACTION_LIKE, ACTION_REPLY, ACTION_COMMENT} :
            \A i \in DOMAIN actions :
                actions[i].action_type = T
                    => Cardinality(InHourEndingAt(T, i)) <= HourlyCap(T))
    /\ [][\A T \in {ACTION_LIKE, ACTION_REPLY} :
            EngagementIteration(T)
                => LET allowed == can_perform_action(actions, now, settings, T).ok
                       added == RecordsOfType(actions', T) - RecordsOfType(actions, T)
                   IN  /\ added = n_done' - n_done
                       /\ added \in {0, 1}
                       /\ added = 1 => allowed /\ check'.action_type = T
                                                /\ check'.result.ok
                       /\ (check' # check /\ ~allowed)
                             => added = 0 /\ ~EngagementIteration(T)'
                       /\ \A U \in {ACTION_POST, ACTION_COMMENT, ACTION_LIKE,
                                      ACTION_REPLY, RATE_LIMIT} \ {T} :
                             RecordsOfType(actions', U) = RecordsOfType(actions, U)]_vars

\* the like loop has stopped at a denial with comments left to like, the cap
\* of likes being used up by the likes of this run
C34_Witness ==
    /\ check.action_type = ACTION_LIKE /\ ~check.result.ok
    /\ pc \notin {"like_loop", "like"}
    /\ n_done >= 1
    /\ RecordsOfType(actions, ACTION_LIKE) = settings.max_likes_per_hour

\* can_perform_action denies the type now, on the hourly or the daily window
DeniedNow(action_type, window) ==
    LET result == can_perform_action(actions, now, settings, action_type)
    IN  ~result.ok /\ result.window = window

\* the answer at the later time t on the ledger as it is now is Allowed, or
\* a denial on the daily window
HourlyReleasedAt(action_type, t) ==
    LET result == can_perform_action(actions, t, settings, action_type)
    IN  result.ok \/ result.window = "Daily"

\* the stamp in the rolling hour from which on the records of the type are
\* as many as the cap: the latest stamp with at least cap records at or after it
CapthNewestInHour(action_type) ==
    LET stamps == {actions[i].timestamp : i \in InLastHour(action_type)}
        from(s) == {i \in InLastHour(action_type) : actions[i].timestamp >= s}
        full == {s \in stamps : Cardinality(from(s)) >= HourlyCap(action_type)}
    IN  CHOOSE s \in full : \A u \in full : u <= s

\* the daily denial is lifted at the next local midnight, no record being added
DailyReleasedAtMidnight ==
    \A T \in {ACTION_POST, ACTION_COMMENT, ACTION_LIKE, ACTION_REPLY} :
        DeniedNow(T, "Daily")
            => can_perform_action(actions, MidnightBefore(now) + Day, settings, T).ok

\* C35 as stated: with no further record an hourly denial has become Allowed
\* 3600 seconds after the stamp of the oldest record of the window (the daily
\* cap not being reached), and a daily denial is lifted at the next local
\* midnight.
C35_ReleasedAfterOldest ==
    /\ \A T \in {ACTION_POST, ACTION_COMMENT, ACTION_LIKE, ACTION_REPLY} :
            DeniedNow(T, "Hourly") => HourlyReleasedAt(T, OldestInHour(T) + Hour)
    /\ DailyReleasedAtMidnight

\* C35: with no further record an hourly denial has become Allowed 3600
\* seconds after the stamp of the cap-th newest record of the window, which is
\* the oldest one when the window holds exactly cap records (the daily cap not
\* being reached), and a daily denial is lifted at the next local midnight.
C35_ReleasedAfterCapthNewest ==
    /\ \A T \in {ACTION_POST, ACTION_COMMENT, ACTION_LIKE, ACTION_REPLY} :
            DeniedNow(T, "Hourly")
                => /\ HourlyReleasedAt(T, CapthNewestInHour(T) + Hour)
                   /\ Cardinality(InLastHour(T)) = HourlyCap(T)
                         => CapthNewestInHour(T) = OldestInHour(T)
    /\ DailyReleasedAtMidnight

\* an hourly denial of posts on a window that holds more records than the
\* cap, stamped at two different times
C35_Witness ==
    /\ pc = "idle"
    /\ DeniedNow(ACTION_POST, "Hourly")
    /\ Cardinality(InLastHour(ACTION_POST)) > settings.max_posts_per_hour
    /\ CapthNewestInHour(ACTION_POST) > OldestInHour(ACTION_POST)
    /\ can_perform_action(actions, CapthNewestInHour(ACTION_POST) + Hour, settings,
                          ACTION_POST).ok

\* the sleeps of retry_delay the legacy downloader has made so far
LegacySleeps == legacy.slept + Cardinality(legacy.sleeps)

\* C36: the legacy download_video makes at most max_retries attempts per URL,
\* sleeps retry_delay only between two attempts, returns on the first attempt
\* that yields a video file, and after the last attempt returns failure;
\* download_multiple_videos then appends a 'download_failed' entry for the
\* URL and goes on with the next one.
C36_LegacyRetries ==
    /\ legacy.attempt <= legacy.max_retries
    /\ Len(legacy.downloaded_videos) = legacy.index
    /\ pc = "returned" => Len(legacy.downloaded_videos) = Len(urls)
    /\ legacy.sleeps \subseteq 1..(legacy.attempt - 1)
    /\ now - RunStart = legacy.retry_delay * LegacySleeps
                        + 2 * (IF pc = "returned" THEN Len(urls) - 1 ELSE legacy.index)
    /\ \A k \in DOMAIN legacy.downloaded_videos :
          /\ legacy.downloaded_videos[k].url = urls[k]
          /\ legacy.downloaded_videos[k].status \in {"downloaded", "download_failed"}
    /\ legacy.index >= 1
          => LET k == legacy.index
                 outcomes == legacy.log.outcomes
                 made == Len(outcomes)
                 yielded == {a \in 1..made : outcomes[a] = "file"}
             IN  /\ made <= legacy.max_retries
                 /\ legacy.log.sleeps \subseteq 1..(made - 1)
                 /\ yielded \subseteq {made}
                 /\ legacy.downloaded_videos[k].status
                        = (IF yielded # {} THEN "downloaded" ELSE "download_failed")
                 /\ (extract_shortcode_from_url(urls[k]) # NoValue /\ yielded = {}
                       /\ \A a \in 1..made : outcomes[a] # "not_video")
                      => made = legacy.max_retries

\* the first URL failed after two sleeps of retry_delay, and the second URL
\* was downloaded at its second attempt, which no sleep preceded
C36_Witness ==
    /\ pc = "returned"
    /\ Len(urls) = 2
    /\ legacy.max_retries = 3
    /\ legacy.downloaded_videos[1].status = "download_failed"
    /\ legacy.log.outcomes = <<"no_file", "file">>
    /\ legacy.log.sleeps = {}
    /\ legacy.downloaded_videos[2].status = "downloaded"
    /\ now = RunStart + 12

\* no operation of the orchestrator is in progress
OperationReturned == pc \in {"idle", "returned", "done"}

\* C37: after an operation of the orchestrator has returned, an item in
\* status Downloaded has its file_path set, an item in status Uploaded has a
\* non-empty post id, an item in status DownloadFailed or UploadFailed has its
\* error_message set, and every item download_video returned is in status
\* Downloaded or DownloadFailed.
C37_ItemFields ==
    /\ OperationReturned
        => \A v \in DOMAIN heap :
              /\ heap[v].status = DOWNLOADED => heap[v].file_path # NoValue
              /\ heap[v].status = UPLOADED => heap[v].post_id \notin {NoValue, ""}
              /\ heap[v].status \in {DOWNLOAD_FAILED, UPLOAD_FAILED}
                    => heap[v].error_message # NoValue
    /\ (pc = "returned" /\ entry = "download_multiple_videos")
        => \A k \in DOMAIN ret :
              heap[ret[k]].status \in {DOWNLOADED, DOWNLOAD_FAILED}

\* upload_video_metadata has returned an item published through a client
\* that gave a media object without an id
C37_Witness ==
    /\ pc = "returned"
    /\ entry = "upload_video_metadata"
    /\ heap[cur].status = UPLOADED
    /\ heap[cur].post_id = "uploaded"
    /\ heap[cur].file_path # NoValue

\* the answer of the quota of a type on a ledger at a time
Verdict(acts, t, action_type) == can_perform_action(acts, t, settings, action_type)

\* C38: 'comment' and 'reply' have the same cap value, max_comments_per_hour,
\* and are counted apart: recording a 'reply' never changes the answer of
\* can_perform_action('comment') and the other way round, and each of the
\* two is allowed exactly while fewer than max_comments_per_hour records of
\* its own type lie in the rolling hour, so that max_comments_per_hour
\* comments and as many replies fit in one rolling hour.
C38_CommentAndReplyCountedApart ==
    /\ [](/\ limits(settings)[ACTION_COMMENT] = limits(settings)[ACTION_REPLY]
          /\ limits(settings)[ACTION_COMMENT].per_hour
                = Some(settings.max_comments_per_hour)
          /\ \A T \in {ACTION_COMMENT, ACTION_REPLY} :
                Verdict(actions, now, T).ok
                    <=> Cardinality(InLastHour(T)) < settings.max_comments_per_hour)
    /\ [][/\ RecordsOfType(actions', ACTION_REPLY) # RecordsOfType(actions, ACTION_REPLY)
                => Verdict(actions', now', ACTION_COMMENT)
                      = Verdict(actions, now, ACTION_COMMENT)
          /\ RecordsOfType(actions', ACTION_COMMENT)
                # RecordsOfType(actions, ACTION_COMMENT)
                => Verdict(actions', now', ACTION_REPLY)
                      = Verdict(actions, now, ACTION_REPLY)]_vars

\* the cap of comments is used up within the hour by comments alone, while a
\* reply recorded in the same hour leaves room for another reply
C38_Witness ==
    /\ pc = "idle"
    /\ settings.max_comments_per_hour = 2
    /\ Cardinality(InLastHour(ACTION_COMMENT)) = 2
    /\ Cardinality(InLastHour(ACTION_REPLY)) = 1
    /\ ~Verdict(actions, now, ACTION_COMMENT).ok
    /\ Verdict(actions, now, ACTION_REPLY).ok

\* the window, if any, on which can_perform_action denies the type now
DenialWindow(action_type) == Verdict(actions, now, action_type).window

\* C39: a cap configured as 0 is no limit: with max_posts_per_hour = 0
\* can_perform_action never denies a post on the hourly window, with
\* max_posts_per_day = 0 never on the daily window, and with
\* max_comments_per_hour = 0 or max_likes_per_hour = 0 it never denies a
\* comment, a reply or a like, whatever the ledger holds.
C39_ZeroCapIsNoLimit ==
    /\ settings.max_posts_per_hour = 0 => DenialWindow(ACTION_POST) # "Hourly"
    /\ settings.max_posts_per_day = 0 => DenialWindow(ACTION_POST) # "Daily"
    /\ (settings.max_posts_per_hour = 0 /\ settings.max_posts_per_day = 0)
          => Verdict(actions, now, ACTION_POST).ok
    /\ settings.max_comments_per_hour = 0
          => Verdict(actions, now, ACTION_COMMENT).ok
                /\ Verdict(actions, now, ACTION_REPLY).ok
    /\ settings.max_likes_per_hour = 0 => Verdict(actions, now, ACTION_LIKE).ok

\* both caps of posts are 0 and a post is allowed on a ledger that holds as
\* many posts of this hour as it can
C39_Witness ==
    /\ settings.max_posts_per_hour = 0
    /\ settings.max_posts_per_day = 0
    /\ Cardinality(InLastHour(ACTION_POST)) = MaxLedger
    /\ Verdict(actions, now, ACTION_POST).ok

====
